---- MODULE Spec2Model ----
(***************************************************************************)
(* Model of the certificate verification worker.                           *)
(*                                                                         *)
(* processCertificateVerification (src/src/verification.ts) is an async    *)
(* function: every await on the record store (D1), the result cache (KV)   *)
(* or the Mistral client is a point where another request may run.  Each   *)
(* such await is one action of the model; the Logger calls around it work  *)
(* on the separate audit KV namespace and are recorded in the same action  *)
(* as the step they describe.                                              *)
(***************************************************************************)
EXTENDS Integers, Sequences, FiniteSets, TLC

(***************************************************************************)
(* Bounds of the model                                                     *)
(***************************************************************************)
\* number of verify requests issued in one behaviour
MaxRuns == 2
\* number of collaborator failures (record store, cache) in one behaviour
MaxFaults == 1

Runs == 1..MaxRuns

(***************************************************************************)
(* Identifiers                                                             *)
(***************************************************************************)
\* rows of the users table, and the ids a request may carry
Users == {"u1", "u2"}
UserIds == Users \cup {"u0"}
\* rows of the certificates table, and the ids a request may carry
CertIds == {"c1", "c2"}
CertificateIds == CertIds \cup {"c0"}

\* an optional value is the empty sequence (null, undefined) or <<value>>
null == <<>>
undefined == <<>>
Some(v) == <<v>>

VerificationStatus == {"pending", "verified", "rejected"}

\* JavaScript values of the fields the external service is trusted for: a
\* value is written as its source text, so "true" is the boolean and
\* "'true'" the string; "undefined" is an absent field
JsTotalVerification == {"pass", "fail", "undefined"}
JsUrlValid == {"true", "false", "'true'", "undefined"}

\* the confidence scores, in hundredths
Scores == 0..100

\* MistralVerificationResponse, reduced to the fields the worker reads;
\* document_a.document_a_confidence_score and
\* document_b.document_b_confidence_score are kept under their own names
Reply(tv, uv, a, b) ==
    [total_verification |-> tv, verification_url_valid |-> uv,
     document_a_confidence_score |-> a, document_b_confidence_score |-> b]

\* the replies of the external service that the runs of the model receive
MistralVerificationResponse ==
    {Reply("pass", "true", 95, 90),
     Reply("pass", "true", 50, 50),
     Reply("fail", "true", 95, 90),
     Reply("pass", "false", 95, 90),
     Reply("pass", "'true'", 95, 90),
     Reply("undefined", "true", 95, 90)}

\* JSON.stringify / JSON.parse of a MistralVerificationResponse: the text is
\* the list of its members, a member whose value is undefined being left out
JSONmember(key, value) ==
    IF value = "undefined" THEN <<>> ELSE <<<<key, value>>>>

JSONstringify(r) ==
    JSONmember("total_verification", r.total_verification)
      \o JSONmember("verification_url_valid", r.verification_url_valid)
      \o <<<<"document_a_confidence_score", r.document_a_confidence_score>>,
           <<"document_b_confidence_score", r.document_b_confidence_score>>>>

JSONget(s, key) ==
    IF \E i \in DOMAIN s : s[i][1] = key
    THEN s[CHOOSE i \in DOMAIN s : s[i][1] = key][2]
    ELSE "undefined"

JSONparse(s) ==
    [total_verification |-> JSONget(s, "total_verification"),
     verification_url_valid |-> JSONget(s, "verification_url_valid"),
     document_a_confidence_score |-> JSONget(s, "document_a_confidence_score"),
     document_b_confidence_score |-> JSONget(s, "document_b_confidence_score")]

VARIABLES
    certificates,        \* certificates table: id -> row
    CACHE,               \* env.CACHE: certificate id -> JSON text or null
    verification_logs,   \* verification_logs table: set of rows
    pc,                  \* position of each run
    userId,              \* argument of each run
    certificateId,       \* argument of each run
    certificate,         \* the row read by getCertificate in each run
    cachedResult,        \* the value returned by env.CACHE.get in each run
    verificationResult,  \* the value returned by verifyCertificate in each run
    thrown,              \* message of the error caught by the run's catch block
    outcome,             \* value returned by each run
    httpResponse,        \* status of the Response handleVerification returns
    audit,               \* steps passed to the run's Logger, in order
    mistralCalls,        \* history: verifyCertificate calls of each run
    lastCall,            \* history: result of the last completed call per certificate
    writes,              \* history: status updates executed per certificate
    kvOps,               \* history: operations of each run on env.CACHE
    faults,              \* collaborator failures so far
    clientPc,            \* position of the verifyCertificate call in progress
    response,            \* the Response fetch resolved with in that call
    fetchCalls,          \* number of fetch calls made by that call
    results,             \* history: how each finished verifyCertificate call settled
    VERIFICATION_LOGS,   \* env.VERIFICATION_LOGS: the audit KV namespace
    console,             \* lines written to the console by the Logger
    logCall,             \* the Logger.log call of each request: position and locals
    clock,               \* the value new Date() returns
    analyses,            \* history: the calls of analyzeVerificationConfidence
    ratelimit,           \* env.CACHE entry under rateLimitKey: the counter or null
    limiter,             \* the checkRateLimit calls: position, locals and result
    limiterFaults,       \* failures of env.CACHE seen by checkRateLimit so far
    health,              \* the performHealthCheck call: position, env and locals
    health_check         \* the value under key 'health_check' in the two KV namespaces

vars == <<certificates, CACHE, verification_logs, pc, userId, certificateId,
          certificate, cachedResult, verificationResult, thrown, outcome,
          httpResponse, audit, mistralCalls, lastCall, writes, kvOps, faults,
          clientPc, response, fetchCalls, results,
          VERIFICATION_LOGS, console, logCall, clock, analyses,
          ratelimit, limiter, limiterFaults, health, health_check>>

clientVars == <<clientPc, response, fetchCalls, results>>
loggerVars == <<VERIFICATION_LOGS, console, logCall, clock>>
scorerVars == <<analyses>>
limiterVars == <<ratelimit, limiter, limiterFaults>>
healthVars == <<health, health_check>>
edgeVars == <<limiterVars, healthVars>>
libVars == <<clientVars, loggerVars, scorerVars, edgeVars>>

MaxLogs == 2
MaxClock == 2
RequestIds == {"req1", "req2"}
Steps == {"verification_started", "verification_error"}
Times == 1..MaxClock

runVars == <<userId, certificateId>>
histVars == <<mistralCalls, lastCall, writes, kvOps>>

(***************************************************************************)
(* Record store (src/src/database.ts)                                      *)
(***************************************************************************)
\* SELECT * FROM users WHERE id = ? LIMIT 1
getUser_AlwaysFound(userIdArg) == Some([id |-> userIdArg])

getUser(userIdArg) ==
    IF userIdArg \in Users THEN Some([id |-> userIdArg]) ELSE null

\* SELECT * FROM certificates WHERE id = ? AND user_id = ? LIMIT 1
getCertificate_IgnoresUser(db, userIdArg, certificateIdArg) ==
    IF certificateIdArg \in DOMAIN db
    THEN Some(db[certificateIdArg])
    ELSE null

getCertificate(db, userIdArg, certificateIdArg) ==
    IF /\ certificateIdArg \in DOMAIN db
       /\ db[certificateIdArg].user_id = userIdArg
    THEN Some(db[certificateIdArg])
    ELSE null

\* UPDATE certificates SET verification_status = ?, verification_details = ? WHERE id = ?
updateCertificateVerification_DetailsOnly(db, certificateIdArg, status, details) ==
    IF certificateIdArg \in DOMAIN db
    THEN [db EXCEPT ![certificateIdArg].verification_details = JSONstringify(details)]
    ELSE db

updateCertificateVerification_FirstWins(db, certificateIdArg, status, details) ==
    IF certificateIdArg \in DOMAIN db /\ db[certificateIdArg].verification_status = "pending"
    THEN [db EXCEPT ![certificateIdArg].verification_status = status,
                    ![certificateIdArg].verification_details = JSONstringify(details)]
    ELSE db

updateCertificateVerification(db, certificateIdArg, status, details) ==
    IF certificateIdArg \in DOMAIN db
    THEN [db EXCEPT ![certificateIdArg].verification_status = status,
                    ![certificateIdArg].verification_details = JSONstringify(details)]
    ELSE db

\* INSERT INTO verification_logs (...) VALUES (...): the row id is fresh
createVerificationLog_NoRow(logs, run, certificateIdArg, step, status) == logs

createVerificationLog(logs, run, certificateIdArg, step, status) ==
    logs \cup {[id |-> <<run, Cardinality({l \in logs : l.id[1] = run}) + 1>>,
                certificate_id |-> certificateIdArg,
                verification_step |-> step,
                status |-> status]}

(***************************************************************************)
(* Orchestrator helpers (src/src/verification.ts)                          *)
(***************************************************************************)
\* certificate.verification_status === 'verified'
IsAlreadyVerified_Never(cert) == FALSE

IsAlreadyVerified(cert) == cert.verification_status = "verified"

\* !(!certificate.certificate_url || !certificate.verification_url_pdf)
HasRequiredUrls_CertificateOnly(cert) == cert.certificate_url

HasRequiredUrls(cert) == cert.certificate_url /\ cert.verification_url_pdf

\* isVerified ? 'verified' : 'rejected'
newStatus_Truthy(result) ==
    IF /\ result.total_verification = "pass"
       /\ result.verification_url_valid \in {"true", "'true'"}
    THEN "verified"
    ELSE "rejected"

newStatus(result) ==
    IF result.total_verification = "pass" /\ result.verification_url_valid = "true"
    THEN "verified"
    ELSE "rejected"

(***************************************************************************)
(* analyzeVerificationConfidence (src/src/verification.ts lines 211-250)   *)
(*                                                                         *)
(* Scores are in hundredths and overallConfidence in ten-thousandths. The  *)
(* result is read as result.document_a.document_a_confidence_score and     *)
(* result.document_b.document_b_confidence_score; a sub-record or a score  *)
(* that is null or absent is null here.                                    *)
(***************************************************************************)
ScoreValues == {0, 59, 60, 64, 65, 70, 100, 150}
JsValues == {"true", "false", "'true'", "undefined", "null"}

ScorerInputs ==
    [document_a : {null} \cup {Some([document_a_confidence_score |-> x]) :
                                  x \in {null} \cup {Some(v) : v \in ScoreValues}},
     document_b : {null} \cup {Some([document_b_confidence_score |-> x]) :
                                  x \in {null} \cup {Some(v) : v \in {0, 59, 60, 100, 150}}},
     verification_url_valid : JsValues]

\* the scorer's view of a reply of the external service
ScorerInput(reply) ==
    [document_a |-> Some([document_a_confidence_score |->
                             Some(reply.document_a_confidence_score)]),
     document_b |-> Some([document_b_confidence_score |->
                             Some(reply.document_b_confidence_score)]),
     verification_url_valid |-> reply.verification_url_valid]

IsTruthy(v) == v \notin {"false", "undefined", "null"}

\* reading a property of null or undefined throws a TypeError
ReadThrows(result) == result.document_a = null \/ result.document_b = null

\* score || 0
OrZero(score) == IF score = null THEN 0 ELSE score[1]

documentAScore(result) == OrZero(result.document_a[1].document_a_confidence_score)
documentBScore(result) == OrZero(result.document_b[1].document_b_confidence_score)

overallConfidence(result) ==
    50 * documentAScore(result) + 30 * documentBScore(result)
      + (IF IsTruthy(result.verification_url_valid) THEN 2000 ELSE 0)

isPassing_Strict(result) ==
    IF overallConfidence(result) < 7500 THEN "false"
    ELSE IF ~IsTruthy(result.verification_url_valid)
         THEN result.verification_url_valid
    ELSE IF documentAScore(result) >= 65 THEN "true" ELSE "false"

\* a && b && c is the first falsy operand, or the last one
isPassing(result) ==
    IF overallConfidence(result) < 7000 THEN "false"
    ELSE IF ~IsTruthy(result.verification_url_valid)
         THEN result.verification_url_valid
    ELSE IF documentAScore(result) >= 65 THEN "true" ELSE "false"

NegativeReasons_UrlFirst(result) ==
    (IF ~IsTruthy(result.verification_url_valid)
     THEN <<"Verification URL appears invalid">> ELSE <<>>)
    \o (IF documentAScore(result) < 65
        THEN <<"Certificate document has low confidence score">> ELSE <<>>)
    \o (IF documentBScore(result) < 60
        THEN <<"Verification document has low confidence score">> ELSE <<>>)

NegativeReasons(result) ==
    (IF documentAScore(result) < 65
     THEN <<"Certificate document has low confidence score">> ELSE <<>>)
    \o (IF documentBScore(result) < 60
        THEN <<"Verification document has low confidence score">> ELSE <<>>)
    \o (IF ~IsTruthy(result.verification_url_valid)
        THEN <<"Verification URL appears invalid">> ELSE <<>>)

reasons(result) ==
    IF NegativeReasons(result) = <<>> /\ IsTruthy(isPassing(result))
    THEN <<"All verification checks passed successfully">>
    ELSE NegativeReasons(result)

analyzeVerificationConfidence(result) ==
    IF ReadThrows(result)
    THEN [state |-> "threw", overallConfidence |-> 0, isPassing |-> "undefined",
          reasons |-> <<>>]
    ELSE [state |-> "returned", overallConfidence |-> overallConfidence(result),
          isPassing |-> isPassing(result), reasons |-> reasons(result)]

\* the values returned by processCertificateVerification
UserNotFound ==
    [success |-> FALSE, status |-> "rejected", message |-> "User not found",
     details |-> undefined]

CertificateNotFound ==
    [success |-> FALSE, status |-> "rejected", message |-> "Certificate not found",
     details |-> undefined]

AlreadyVerified ==
    [success |-> TRUE, status |-> "verified",
     message |-> "Certificate is already verified", details |-> undefined]

MissingDocuments ==
    [success |-> FALSE, status |-> "rejected",
     message |-> "Missing required verification documents", details |-> undefined]

CacheHit_NoDetails(cert, cached) ==
    [success |-> TRUE, status |-> cert.verification_status,
     message |-> "Certificate verification result from cache",
     details |-> undefined]

CacheHit(cert, cached) ==
    [success |-> TRUE, status |-> cert.verification_status,
     message |-> "Certificate verification result from cache",
     details |-> Some(cached)]

Completed(result) ==
    [success |-> TRUE, status |-> newStatus(result),
     message |-> IF newStatus(result) = "verified"
                 THEN "Certificate verified successfully"
                 ELSE "Certificate verification failed",
     details |-> Some(result)]

ProcessFailed(errorMessage) ==
    [success |-> FALSE, status |-> "rejected",
     message |-> "Verification process failed: " \o errorMessage,
     details |-> undefined]

NoOutcome == [success |-> FALSE, status |-> "none", message |-> "", details |-> undefined]

\* concurrent checkRateLimit calls of one client on one endpoint in one time
\* window, and the values of the limit parameter
MaxLimiterCalls == 3
MaxLimit == 2
LimiterCalls == 1..MaxLimiterCalls
Limits == 1..MaxLimit

\* the KV namespaces probed by performHealthCheck, in the order of the probes
Namespaces == {"VERIFICATION_LOGS", "CACHE"}

\* checks[name] = { status, details? }
CheckOk == [status |-> "ok", details |-> ""]
CheckError(details) == [status |-> "error", details |-> details]
NoCheckYet == [status |-> "none", details |-> ""]

\* a performHealthCheck call that has not been made yet
NoHealthCheck ==
    [pc |-> "idle", MISTRAL_API_KEY |-> FALSE, JWT_SECRET |-> FALSE,
     overallStatus |-> "ok",
     checks |-> [mistral_api |-> NoCheckYet, jwt_secret |-> NoCheckYet,
                 database |-> NoCheckYet, verification_logs |-> NoCheckYet,
                 cache |-> NoCheckYet]]

\* a checkRateLimit call that has not been made yet
NoCheck == [pc |-> "idle", limit |-> 0, currentCount |-> 0,
            allowed |-> FALSE, remaining |-> 0, logged |-> ""]

(***************************************************************************)
(* Initial state                                                           *)
(***************************************************************************)
\* c1 belongs to u1 and c2 to u2; c1 is created in any status, with or
\* without its two document references; nothing is cached yet
InitWith(index) ==
    /\ \E st \in VerificationStatus, cu \in BOOLEAN, vp \in BOOLEAN :
         certificates =
           [c \in CertIds |->
              IF c = "c1"
              THEN [id |-> c, user_id |-> "u1", verification_status |-> st,
                    verification_details |-> null,
                    certificate_url |-> cu, verification_url_pdf |-> vp]
              ELSE [id |-> c, user_id |-> "u2", verification_status |-> "pending",
                    verification_details |-> null,
                    certificate_url |-> TRUE, verification_url_pdf |-> TRUE]]
    /\ CACHE = [c \in CertIds |-> null]
    /\ verification_logs = {}
    /\ pc = [r \in Runs |-> "idle"]
    /\ userId = [r \in Runs |-> "u0"]
    /\ certificateId = [r \in Runs |-> "c0"]
    /\ certificate = [r \in Runs |-> null]
    /\ cachedResult = [r \in Runs |-> null]
    /\ verificationResult = [r \in Runs |-> null]
    /\ thrown = [r \in Runs |-> ""]
    /\ outcome = [r \in Runs |-> NoOutcome]
    /\ httpResponse = [r \in Runs |-> 0]
    /\ audit = [r \in Runs |-> <<>>]
    /\ mistralCalls = [r \in Runs |-> <<>>]
    /\ lastCall = [c \in CertIds |-> "none"]
    /\ writes = [c \in CertIds |-> <<>>]
    /\ kvOps = [r \in Runs |-> <<>>]
    /\ faults = 0
    /\ clientPc = "idle"
    /\ response = null
    /\ fetchCalls = 0
    /\ results = <<>>
    /\ VERIFICATION_LOGS =
          [log |-> [k \in RequestIds \X Times |-> null],
           requests |-> [q \in RequestIds |-> null],
           recent_requests |-> index]
    /\ console = <<>>
    /\ logCall = [q \in RequestIds |->
                    [pc |-> "idle", timestamp |-> 1, step |-> "verification_started",
                     recentRequests |-> <<>>, settled |-> <<>>]]
    /\ clock = 1
    /\ analyses = <<>>
    /\ ratelimit = null
    /\ limiter = [k \in LimiterCalls |-> NoCheck]
    /\ limiterFaults = 0
    /\ health = NoHealthCheck
    /\ health_check = [ns \in Namespaces |-> null]

\* the audit store holds no index of recent requests yet
Init == InitWith(null)

(***************************************************************************)
(* processCertificateVerification, one action per await                    *)
(***************************************************************************)
Log_FirstOnly(r, steps) == audit' = [audit EXCEPT ![r] = @ \o SubSeq(steps, 1, 1)]

Log(r, steps) == audit' = [audit EXCEPT ![r] = @ \o steps]

\* jsonResponse({ success: result.success, ... }, result.success ? 200 : 400)
handleVerification_NotFound404(result) ==
    IF result.success THEN 200
    ELSE IF result.message \in {"User not found", "Certificate not found"}
         THEN 404 ELSE 400

handleVerification(result) == IF result.success THEN 200 ELSE 400

\* the function returns and handleVerification, which awaits it, responds
Return(r, value) ==
    /\ outcome' = [outcome EXCEPT ![r] = value]
    /\ httpResponse' = [httpResponse EXCEPT ![r] = handleVerification(value)]
    /\ pc' = [pc EXCEPT ![r] = "done"]

Throw(r, errorMessage) ==
    /\ thrown' = [thrown EXCEPT ![r] = errorMessage]
    /\ pc' = [pc EXCEPT ![r] = "catch"]
    /\ faults' = faults + 1

\* a request arrives: logger.info('verification_started')
Start(r, u, c) ==
    /\ pc[r] = "idle"
    /\ \A q \in Runs : q < r => pc[q] # "idle"
    /\ userId' = [userId EXCEPT ![r] = u]
    /\ certificateId' = [certificateId EXCEPT ![r] = c]
    /\ Log(r, <<"verification_started">>)
    /\ pc' = [pc EXCEPT ![r] = "getUser"]
    /\ UNCHANGED <<libVars, certificates, CACHE, verification_logs, certificate,
                   cachedResult, verificationResult, thrown, outcome, httpResponse, histVars, faults>>

\* const user = await getUser(env.DB, userId); if (!user) return ...
GetUser(r) ==
    /\ pc[r] = "getUser"
    /\ IF getUser(userId[r]) = null
       THEN /\ Log(r, <<"user_not_found">>)
            /\ Return(r, UserNotFound)
       ELSE /\ Log(r, <<"user_found">>)
            /\ pc' = [pc EXCEPT ![r] = "getCertificate"]
            /\ UNCHANGED <<outcome, httpResponse>>
    /\ UNCHANGED <<libVars, certificates, CACHE, verification_logs, runVars, certificate,
                   cachedResult, verificationResult, thrown, histVars, faults>>

\* getUser throws 'Database error: Failed to fetch user'
GetUserFails(r) ==
    /\ pc[r] = "getUser"
    /\ faults < MaxFaults
    /\ Throw(r, "Database error: Failed to fetch user")
    /\ UNCHANGED <<libVars, certificates, CACHE, verification_logs, runVars, certificate,
                   cachedResult, verificationResult, outcome, httpResponse, audit, histVars>>

\* const certificate = await getCertificate(env.DB, userId, certificateId),
\* followed by the checks that need no further await
GetCertificate(r) ==
    /\ pc[r] = "getCertificate"
    /\ LET found == getCertificate(certificates, userId[r], certificateId[r])
       IN /\ certificate' = [certificate EXCEPT ![r] = found]
          /\ IF found = null
             THEN /\ Log(r, <<"certificate_not_found">>)
                  /\ Return(r, CertificateNotFound)
             ELSE IF IsAlreadyVerified(found[1])
             THEN /\ Log(r, <<"certificate_found", "already_verified">>)
                  /\ Return(r, AlreadyVerified)
             ELSE IF ~HasRequiredUrls(found[1])
             THEN /\ Log(r, <<"certificate_found", "missing_verification_documents">>)
                  /\ pc' = [pc EXCEPT ![r] = "documentCheckLog"]
                  /\ UNCHANGED <<outcome, httpResponse>>
             ELSE /\ Log(r, <<"certificate_found">>)
                  /\ pc' = [pc EXCEPT ![r] = "cacheGet"]
                  /\ UNCHANGED <<outcome, httpResponse>>
    /\ UNCHANGED <<libVars, certificates, CACHE, verification_logs, runVars,
                   cachedResult, verificationResult, thrown, histVars, faults>>

\* getCertificate throws 'Database error: Failed to fetch certificate'
GetCertificateFails(r) ==
    /\ pc[r] = "getCertificate"
    /\ faults < MaxFaults
    /\ Throw(r, "Database error: Failed to fetch certificate")
    /\ UNCHANGED <<libVars, certificates, CACHE, verification_logs, runVars, certificate,
                   cachedResult, verificationResult, outcome, httpResponse, audit, histVars>>

\* await createVerificationLog(env.DB, certificateId, 'document_check', 'error', ...)
DocumentCheckLog(r) ==
    /\ pc[r] = "documentCheckLog"
    /\ verification_logs' =
         createVerificationLog(verification_logs, r, certificateId[r],
                               "document_check", "error")
    /\ Return(r, MissingDocuments)
    /\ UNCHANGED <<libVars, certificates, CACHE, runVars, certificate, cachedResult, verificationResult,
                   thrown, audit, histVars, faults>>

DocumentCheckLogFails(r) ==
    /\ pc[r] = "documentCheckLog"
    /\ faults < MaxFaults
    /\ Throw(r, "Database error: Failed to create verification log")
    /\ UNCHANGED <<libVars, certificates, CACHE, verification_logs, runVars, certificate,
                   cachedResult, verificationResult, outcome, httpResponse, audit, histVars>>

\* const cachedResult = await env.CACHE.get(cacheKey, 'json'); if (cachedResult) ...
CacheGet(r) ==
    /\ pc[r] = "cacheGet"
    /\ LET text == CACHE[certificateId[r]]
           parsed == IF text = null THEN null ELSE Some(JSONparse(text))
       IN /\ cachedResult' = [cachedResult EXCEPT ![r] = parsed]
          /\ IF parsed # null
             THEN /\ Log(r, <<"cache_hit">>)
                  /\ Return(r, CacheHit(certificate[r][1], parsed[1]))
             ELSE /\ Log(r, <<"verification_process_started">>)
                  /\ pc' = [pc EXCEPT ![r] = "processLog"]
                  /\ UNCHANGED <<outcome, httpResponse>>
    /\ kvOps' = [kvOps EXCEPT ![r] = Append(@, "get")]
    /\ UNCHANGED <<libVars, certificates, CACHE, verification_logs, runVars, certificate,
                   verificationResult, thrown, mistralCalls, lastCall, writes,
                   faults>>

\* env.CACHE.get rejects
CacheGetFails(r) ==
    /\ pc[r] = "cacheGet"
    /\ faults < MaxFaults
    /\ Throw(r, "KV GET failed")
    /\ UNCHANGED <<libVars, certificates, CACHE, verification_logs, runVars, certificate,
                   cachedResult, verificationResult, outcome, httpResponse, audit, histVars>>

\* await createVerificationLog(env.DB, certificateId, 'verification_process', 'started', ...)
ProcessLog(r) ==
    /\ pc[r] = "processLog"
    /\ verification_logs' =
         createVerificationLog(verification_logs, r, certificateId[r],
                               "verification_process", "started")
    /\ pc' = [pc EXCEPT ![r] = "verifyCertificate"]
    /\ UNCHANGED <<libVars, certificates, CACHE, runVars, certificate, cachedResult, verificationResult,
                   thrown, outcome, httpResponse, audit, histVars, faults>>

ProcessLogFails(r) ==
    /\ pc[r] = "processLog"
    /\ faults < MaxFaults
    /\ Throw(r, "Database error: Failed to create verification log")
    /\ UNCHANGED <<libVars, certificates, CACHE, verification_logs, runVars, certificate,
                   cachedResult, verificationResult, outcome, httpResponse, audit, histVars>>

\* const verificationResult = await verifyCertificate(apiKey, certificate_url,
\* verification_url_pdf): the service answers with some result
VerifyCertificate(r, result) ==
    /\ pc[r] = "verifyCertificate"
    /\ verificationResult' = [verificationResult EXCEPT ![r] = Some(result)]
    /\ mistralCalls' = [mistralCalls EXCEPT
                          ![r] = Append(@, [documents |-> certificate[r][1].id,
                                            ok |-> TRUE])]
    /\ lastCall' = [lastCall EXCEPT ![certificate[r][1].id] = "succeeded"]
    /\ Log(r, <<"ai_verification_completed">>)
    /\ pc' = [pc EXCEPT ![r] = "update"]
    /\ UNCHANGED <<libVars, certificates, CACHE, verification_logs, runVars, certificate,
                   cachedResult, thrown, outcome, httpResponse, writes, kvOps, faults>>

\* verifyCertificate rejects: 'Certificate verification failed: ...'
VerifyCertificateFails(r) ==
    /\ pc[r] = "verifyCertificate"
    /\ mistralCalls' = [mistralCalls EXCEPT
                          ![r] = Append(@, [documents |-> certificate[r][1].id,
                                            ok |-> FALSE])]
    /\ lastCall' = [lastCall EXCEPT ![certificate[r][1].id] = "failed"]
    /\ thrown' = [thrown EXCEPT ![r] = "Certificate verification failed"]
    /\ pc' = [pc EXCEPT ![r] = "catch"]
    /\ UNCHANGED <<libVars, certificates, CACHE, verification_logs, runVars, certificate,
                   cachedResult, verificationResult, outcome, httpResponse, audit, writes, kvOps,
                   faults>>

\* await updateCertificateVerification(env.DB, certificateId, newStatus, verificationResult)
UpdateCertificate(r) ==
    /\ pc[r] = "update"
    /\ LET result == verificationResult[r][1]
       IN /\ certificates' =
               updateCertificateVerification(certificates, certificateId[r],
                                             newStatus(result), result)
          /\ writes' = [writes EXCEPT
                          ![certificateId[r]] =
                             Append(@, [run |-> r, status |-> newStatus(result),
                                        details |-> result])]
    /\ Log(r, <<"verification_status_updated">>)
    /\ pc' = [pc EXCEPT ![r] = "completedLog"]
    /\ UNCHANGED <<libVars, CACHE, verification_logs, runVars, certificate, cachedResult,
                   verificationResult, thrown, outcome, httpResponse, mistralCalls, lastCall,
                   kvOps, faults>>

UpdateCertificateFails(r) ==
    /\ pc[r] = "update"
    /\ faults < MaxFaults
    /\ Throw(r, "Database error: Failed to update certificate verification")
    /\ UNCHANGED <<libVars, certificates, CACHE, verification_logs, runVars, certificate,
                   cachedResult, verificationResult, outcome, httpResponse, audit, histVars>>

\* await createVerificationLog(env.DB, certificateId, 'verification_completed', newStatus, ...)
CompletedLog(r) ==
    /\ pc[r] = "completedLog"
    /\ verification_logs' =
         createVerificationLog(verification_logs, r, certificateId[r],
                               "verification_completed",
                               newStatus(verificationResult[r][1]))
    /\ pc' = [pc EXCEPT ![r] = "cachePut"]
    /\ UNCHANGED <<libVars, certificates, CACHE, runVars, certificate, cachedResult, verificationResult,
                   thrown, outcome, httpResponse, audit, histVars, faults>>

CompletedLogFails(r) ==
    /\ pc[r] = "completedLog"
    /\ faults < MaxFaults
    /\ Throw(r, "Database error: Failed to create verification log")
    /\ UNCHANGED <<libVars, certificates, CACHE, verification_logs, runVars, certificate,
                   cachedResult, verificationResult, outcome, httpResponse, audit, histVars>>

\* await env.CACHE.put(cacheKey, JSON.stringify(verificationResult), ...); return ...
CachePut(r) ==
    /\ pc[r] = "cachePut"
    /\ CACHE' = [CACHE EXCEPT ![certificateId[r]] =
                                 JSONstringify(verificationResult[r][1])]
    /\ kvOps' = [kvOps EXCEPT ![r] = Append(@, "put")]
    /\ Return(r, Completed(verificationResult[r][1]))
    /\ UNCHANGED <<libVars, certificates, verification_logs, runVars, certificate,
                   cachedResult, verificationResult, thrown, audit, mistralCalls,
                   lastCall, writes, faults>>

\* env.CACHE.put rejects
CachePutFails(r) ==
    /\ pc[r] = "cachePut"
    /\ faults < MaxFaults
    /\ Throw(r, "KV PUT failed")
    /\ UNCHANGED <<libVars, certificates, CACHE, verification_logs, runVars, certificate,
                   cachedResult, verificationResult, outcome, httpResponse, audit, histVars>>

\* catch (error): logger.error('verification_error'), then the error row
Catch(r) ==
    /\ pc[r] = "catch"
    /\ Log(r, <<"verification_error">>)
    /\ verification_logs' =
         createVerificationLog(verification_logs, r, certificateId[r],
                               "verification_error", "error")
    /\ Return(r, ProcessFailed(thrown[r]))
    /\ UNCHANGED <<libVars, certificates, CACHE, runVars, certificate, cachedResult, verificationResult,
                   thrown, histVars, faults>>

\* catch (dbError) { console.error(...) }: the run goes on to its return
CatchDbError_Rethrows(r) ==
    /\ pc' = [pc EXCEPT ![r] = "threw"]
    /\ httpResponse' = [httpResponse EXCEPT ![r] = 500]
    /\ UNCHANGED outcome

CatchDbError(r) == Return(r, ProcessFailed(thrown[r]))

\* the error row cannot be written either: catch (dbError) swallows it
CatchLogFails(r) ==
    /\ pc[r] = "catch"
    /\ faults < MaxFaults
    /\ faults' = faults + 1
    /\ Log(r, <<"verification_error">>)
    /\ CatchDbError(r)
    /\ UNCHANGED <<libVars, certificates, CACHE, verification_logs, runVars, certificate,
                   cachedResult, verificationResult, thrown, histVars>>

\* verification_logs.certificate_id REFERENCES certificates(id): where the store
\* enforces foreign keys the error row of an unknown certificate is refused
CatchLogRefused(r) ==
    /\ pc[r] = "catch"
    /\ certificateId[r] \notin DOMAIN certificates
    /\ Log(r, <<"verification_error">>)
    /\ Return(r, ProcessFailed(thrown[r]))
    /\ UNCHANGED <<libVars, certificates, CACHE, verification_logs, runVars, certificate,
                   cachedResult, verificationResult, thrown, histVars, faults>>

\* the 24 hour expirationTtl of a cache entry runs out
ExpireCache(c) ==
    /\ CACHE[c] # null
    /\ CACHE' = [CACHE EXCEPT ![c] = null]
    /\ UNCHANGED <<libVars, certificates, verification_logs, pc, runVars, certificate,
                   cachedResult, verificationResult, thrown, outcome, httpResponse, audit, histVars, faults>>

Next ==
    \/ \E r \in Runs, u \in UserIds, c \in CertificateIds : Start(r, u, c)
    \/ \E r \in Runs : GetUser(r)
    \/ \E r \in Runs : GetUserFails(r)
    \/ \E r \in Runs : GetCertificate(r)
    \/ \E r \in Runs : GetCertificateFails(r)
    \/ \E r \in Runs : DocumentCheckLog(r)
    \/ \E r \in Runs : DocumentCheckLogFails(r)
    \/ \E r \in Runs : CacheGet(r)
    \/ \E r \in Runs : CacheGetFails(r)
    \/ \E r \in Runs : ProcessLog(r)
    \/ \E r \in Runs : ProcessLogFails(r)
    \/ \E r \in Runs, result \in MistralVerificationResponse : VerifyCertificate(r, result)
    \/ \E r \in Runs : VerifyCertificateFails(r)
    \/ \E r \in Runs : UpdateCertificate(r)
    \/ \E r \in Runs : UpdateCertificateFails(r)
    \/ \E r \in Runs : CompletedLog(r)
    \/ \E r \in Runs : CompletedLogFails(r)
    \/ \E r \in Runs : CachePut(r)
    \/ \E r \in Runs : CachePutFails(r)
    \/ \E r \in Runs : Catch(r)
    \/ \E r \in Runs : CatchLogFails(r)
    \/ \E r \in Runs : CatchLogRefused(r)
    \/ \E c \in CertIds : ExpireCache(c)

Spec == Init /\ [][Next]_vars

\* the steps of run r after its arrival: each is the settling, by a value or by
\* a rejection, of the collaborator call the run is waiting for
Settles(r) ==
    \/ GetUser(r) \/ GetUserFails(r)
    \/ GetCertificate(r) \/ GetCertificateFails(r)
    \/ DocumentCheckLog(r) \/ DocumentCheckLogFails(r)
    \/ CacheGet(r) \/ CacheGetFails(r)
    \/ ProcessLog(r) \/ ProcessLogFails(r)
    \/ (\E result \in MistralVerificationResponse : VerifyCertificate(r, result))
    \/ VerifyCertificateFails(r)
    \/ UpdateCertificate(r) \/ UpdateCertificateFails(r)
    \/ CompletedLog(r) \/ CompletedLogFails(r)
    \/ CachePut(r) \/ CachePutFails(r)
    \/ Catch(r) \/ CatchLogFails(r) \/ CatchLogRefused(r)

\* every collaborator call a run awaits returns or fails
SpecSettling == Spec /\ \A r \in Runs : WF_vars(Settles(r))

(***************************************************************************)
(* Analysis client (verifyCertificate, src/src/logger.ts lines 155-314)    *)
(*                                                                         *)
(* The text of a reply is a sequence of tokens separated by white space:   *)
(*   "text"     prose holding no brace and no backtick                     *)
(*   "~~~json"  three backticks followed by json                           *)
(*   "~~~"      three backticks                                            *)
(*   "{pass}"   the text of a JSON object with total_verification 'pass'   *)
(*   "{fail}"   the text of a JSON object with total_verification 'fail'   *)
(*   "{}"       the text of a JSON object with none of the fields          *)
(*   "{bad}"    a brace span that is not JSON                              *)
(*   "{pass:'"  the text of such an object up to the opening quote of its  *)
(*   "{fail:'"  last member, the string student_name                       *)
(*   "'}"       the closing quote of that string and the closing brace     *)
(***************************************************************************)
MaxLen == 3
MaxCalls == 2

MaxText == 3

ValidObjects == {"{pass}", "{fail}", "{}"}
BraceSpans == ValidObjects \cup {"{bad}"}
Fences == {"~~~json", "~~~"}
Tokens == {"text", "{pass}", "{fail}", "{bad}"} \cup Fences

Contents == UNION {[1..n -> Tokens] : n \in 0..MaxLen}

\* the characters a JSON string holds unescaped
StringTokens == {"text", "{}", "~~~"}
Texts == UNION {[1..n -> StringTokens] : n \in 0..MaxText}
Opens == {"{pass:'", "{fail:'"}
Close == "'}"

\* a member of the parsed object: null, absent, or a string
JsAbsent == <<"undefined">>
JsString(text) == <<"string">> \o text
TextOf(member) == SubSeq(member, 2, Len(member))

\* the parsed reply, reduced to the fields the worker decides on and one of
\* the extracted fields of document_a
Analysis(tv, uv, name) ==
    [total_verification |-> tv, verification_url_valid |-> uv,
     student_name |-> name]

AnalysisResults ==
    {Analysis("pass", "true", n) : n \in {null} \cup {JsString(t) : t \in Texts}}
    \cup {Analysis("fail", "false", n) : n \in {null} \cup {JsString(t) : t \in Texts}}

ObjectOf(token) ==
    IF token \in {"{pass}", "{pass:'"} THEN Analysis("pass", "true", null)
    ELSE IF token \in {"{fail}", "{fail:'"} THEN Analysis("fail", "false", null)
    ELSE Analysis("undefined", "undefined", JsAbsent)

\* JSON.stringify(r) of an AnalysisResult
JSONstringifyText(r) ==
    IF r.student_name = null
    THEN IF r.total_verification = "pass" THEN <<"{pass}">> ELSE <<"{fail}">>
    ELSE <<IF r.total_verification = "pass" THEN "{pass:'" ELSE "{fail:'">>
            \o TextOf(r.student_name) \o <<Close>>

\* JSON.parse(text): the parsed value, or null where it throws a SyntaxError
JSONparseText(text) ==
    IF Len(text) = 1 /\ text[1] \in ValidObjects
    THEN Some(ObjectOf(text[1]))
    ELSE IF /\ Len(text) >= 2
            /\ text[1] \in Opens
            /\ text[Len(text)] = Close
            /\ \A i \in 2..(Len(text) - 1) : text[i] \in StringTokens
    THEN Some([ObjectOf(text[1]) EXCEPT
                  !.student_name = JsString(SubSeq(text, 2, Len(text) - 1))])
    ELSE null

Indices(content, S) == {i \in DOMAIN content : content[i] \in S}
Min(S) == CHOOSE i \in S : \A j \in S : i <= j
Max(S) == CHOOSE i \in S : \A j \in S : j <= i

\* content.match of an opening fence, a lazy group and a closing fence: the
\* leftmost opening fence that has a fence after it, up to the nearest such
\* fence; Some(group 1) or null
MatchFence(content, open) ==
    LET starts == {i \in Indices(content, open) :
                      \E j \in Indices(content, Fences) : j > i}
    IN  IF starts = {} THEN null
        ELSE LET i == Min(starts)
                 j == Min({k \in Indices(content, Fences) : k > i})
             IN  Some(SubSeq(content, i + 1, j - 1))

\* content.match(/{[\s\S]*}/): the pattern has no group, so element 1 of the
\* match is undefined
MatchBraces(content) ==
    IF \E i \in Indices(content, BraceSpans \cup Opens) :
          \E j \in Indices(content, BraceSpans \cup {Close}) : i <= j
    THEN Some(undefined)
    ELSE null

jsonMatch(content) ==
    IF MatchFence(content, {"~~~json"}) # null THEN MatchFence(content, {"~~~json"})
    ELSE IF MatchFence(content, Fences) # null THEN MatchFence(content, Fences)
    ELSE MatchBraces(content)

Rejected(resp, errorMessage) ==
    [response |-> resp, state |-> "rejected", value |-> null, via |-> "none",
     message |-> "Certificate verification failed: " \o errorMessage]

Fulfilled(resp, v, path) ==
    [response |-> resp, state |-> "fulfilled", value |-> v, via |-> path,
     message |-> ""]

Parse(resp, text, path) ==
    IF JSONparseText(text) = null
    THEN Rejected(resp, "Failed to parse Mistral AI response: SyntaxError")
    ELSE Fulfilled(resp, JSONparseText(text), path)

Extract_WholeContent(resp) == Parse(Some(resp), resp.content, "content")

\* lines 286-295: an empty or undefined group 1 is falsy
Extract(resp) ==
    IF jsonMatch(resp.content) # null /\ jsonMatch(resp.content)[1] # <<>>
    THEN Parse(Some(resp), jsonMatch(resp.content)[1], "group")
    ELSE Parse(Some(resp), resp.content, "content")

IsOk_Always(resp) == TRUE

\* response.ok
IsOk(resp) == resp.ok

Responses ==
    {[ok |-> o, choices |-> FALSE, type |-> "undefined", content |-> <<>>] :
        o \in BOOLEAN}
    \cup {[ok |-> FALSE, choices |-> TRUE, type |-> "string", content |-> <<v>>] :
             v \in ValidObjects}
    \cup {[ok |-> TRUE, choices |-> TRUE, type |-> "string", content |-> c] :
             c \in Contents \cup {<<"{}">>}
                     \cup {JSONstringifyText(r) : r \in AnalysisResults}}
    \cup {[ok |-> TRUE, choices |-> TRUE, type |-> "object", content |-> <<v>>] :
             v \in ValidObjects}
    \cup {[ok |-> TRUE, choices |-> TRUE, type |-> t, content |-> <<>>] :
             t \in {"null", "number", "undefined"}}

mainVars == <<certificates, CACHE, verification_logs, pc, userId, certificateId,
              certificate, cachedResult, verificationResult, thrown, outcome,
              httpResponse, audit, mistralCalls, lastCall, writes, kvOps, faults>>

\* verifyCertificate is called
Call ==
    /\ clientPc \in {"idle", "settled"}
    /\ Len(results) < MaxCalls
    /\ clientPc' = "fetch"
    /\ response' = null
    /\ fetchCalls' = 0
    /\ UNCHANGED <<mainVars, loggerVars, scorerVars, edgeVars, results>>

\* await fetch(MISTRAL_API_URL, ...) resolves
Fetch(resp) ==
    /\ clientPc = "fetch"
    /\ clientPc' = "fetched"
    /\ response' = Some(resp)
    /\ fetchCalls' = fetchCalls + 1
    /\ UNCHANGED <<mainVars, loggerVars, scorerVars, edgeVars, results>>

\* await fetch(...) rejects: the outer catch rethrows
FetchRejects ==
    /\ clientPc = "fetch"
    /\ clientPc' = "settled"
    /\ fetchCalls' = fetchCalls + 1
    /\ results' = Append(results, Rejected(null, "fetch failed") @@ [fetches |-> fetchCalls'])
    /\ UNCHANGED <<mainVars, loggerVars, scorerVars, edgeVars, response>>

\* if (!response.ok) throw
NotOk ==
    /\ clientPc = "fetched"
    /\ ~IsOk(response[1])
    /\ clientPc' = "settled"
    /\ results' = Append(results, Rejected(response, "Mistral AI API error")
                                     @@ [fetches |-> fetchCalls])
    /\ UNCHANGED <<mainVars, loggerVars, scorerVars, edgeVars, response, fetchCalls>>

\* lines 274-309
ParseResponse ==
    /\ clientPc = "fetched"
    /\ IsOk(response[1])
    /\ clientPc' = "settled"
    /\ LET resp == response[1]
           settledAs ==
             IF ~resp.choices
             THEN Rejected(response, "Failed to parse Mistral AI response: Invalid response format from Mistral AI")
             ELSE IF resp.type = "string" THEN Extract(resp)
             ELSE IF resp.type = "object"
                  THEN Fulfilled(response, Some(ObjectOf(resp.content[1])), "object")
             ELSE IF resp.type = "null"
                  THEN Fulfilled(response, null, "object")
             ELSE Rejected(response, "Failed to parse Mistral AI response: Unexpected response format from Mistral AI")
       IN  results' = Append(results, settledAs @@ [fetches |-> fetchCalls])
    /\ UNCHANGED <<mainVars, loggerVars, scorerVars, edgeVars, response, fetchCalls>>

\* one table for the specifications of the collaborators' clients
InitClient ==
    /\ Init
    /\ certificates["c1"].verification_status = "pending"
    /\ certificates["c1"].certificate_url
    /\ certificates["c1"].verification_url_pdf

NextReply ==
    \/ Call
    \/ \E resp \in Responses : Fetch(resp)
    \/ FetchRejects
    \/ NotOk
    \/ ParseResponse

SpecReply == InitClient /\ [][NextReply]_vars

(***************************************************************************)
(* Audit logger (class Logger, src/src/logger.ts lines 11-139)             *)
(***************************************************************************)
RECENT_LIMIT == 1000

LogEntry(q, timestamp, step) ==
    [requestId |-> q, timestamp |-> timestamp, step |-> step]

Entry(q) == LogEntry(q, logCall[q].timestamp, logCall[q].step)

Filter(list, q) == SelectSeq(list, LAMBDA id : id # q)
Slice_NoCap(list, n) == list

Slice(list, n) == SubSeq(list, 1, IF Len(list) < n THEN Len(list) ELSE n)

\* [this.requestId, ...recentRequests.filter(id => id !== this.requestId)].slice(0, 1000)
updatedList(q, recentRequests) == Slice(<<q>> \o Filter(recentRequests, q), RECENT_LIMIT)

\* a log call that ends: how it settled, and which KV failure it met
Settle(call, how, failure) ==
    [call EXCEPT !.pc = "idle",
                 !.settled = Append(@, [how |-> how, failure |-> failure,
                                        timestamp |-> call.timestamp,
                                        step |-> call.step])]

CatchKvFailure_Rethrows(call, failure) == Settle(call, "threw", failure)

\* both catch blocks of log() end without a throw statement
CatchKvFailure(call, failure) == Settle(call, "returned", failure)

\* new Date() moves on
Tick ==
    /\ clock < MaxClock
    /\ clock' = clock + 1
    /\ UNCHANGED <<mainVars, clientVars, scorerVars, edgeVars, VERIFICATION_LOGS, console, logCall>>

\* logger.info / success / error(step): lines 47-58
LoggerLog(q, step) ==
    /\ logCall[q].pc = "idle"
    /\ Len(logCall[q].settled) < MaxLogs
    /\ logCall' = [logCall EXCEPT ![q] = [@ EXCEPT !.pc = "putEntry",
                                                   !.timestamp = clock,
                                                   !.step = step]]
    /\ UNCHANGED <<mainVars, clientVars, scorerVars, edgeVars, VERIFICATION_LOGS, console, clock>>

\* await this.kv.put(key, JSON.stringify(entry), ...)
PutEntry(q) ==
    /\ logCall[q].pc = "putEntry"
    /\ VERIFICATION_LOGS' =
          [VERIFICATION_LOGS EXCEPT !.log[<<q, logCall[q].timestamp>>] = Some(Entry(q))]
    /\ logCall' = [logCall EXCEPT ![q].pc = "putRequestList"]
    /\ UNCHANGED <<mainVars, clientVars, scorerVars, edgeVars, console, clock>>

\* await this.kv.put(requestListKey, timestamp, ...)
PutRequestList(q) ==
    /\ logCall[q].pc = "putRequestList"
    /\ VERIFICATION_LOGS' =
          [VERIFICATION_LOGS EXCEPT !.requests[q] = Some(logCall[q].timestamp)]
    /\ logCall' = [logCall EXCEPT ![q].pc = "getRecent"]
    /\ UNCHANGED <<mainVars, clientVars, scorerVars, edgeVars, console, clock>>

\* one of the two puts rejects: the outer catch, lines 84-88
PutFails(q) ==
    /\ logCall[q].pc \in {"putEntry", "putRequestList"}
    /\ console' = console \o <<[level |-> "error", text |-> "Failed to write log to KV",
                                entry |-> null],
                               [level |-> "log", text |-> "entry",
                                entry |-> Some(Entry(q))]>>
    /\ logCall' = [logCall EXCEPT ![q] = CatchKvFailure(@, "put")]
    /\ UNCHANGED <<mainVars, clientVars, scorerVars, edgeVars, VERIFICATION_LOGS, clock>>

\* await this.kv.get(recentListKey, 'json') || []
GetRecent(q) ==
    /\ logCall[q].pc = "getRecent"
    /\ logCall' = [logCall EXCEPT ![q] =
                      [@ EXCEPT !.pc = "putRecent",
                                !.recentRequests =
                                    IF VERIFICATION_LOGS.recent_requests = null
                                    THEN <<>>
                                    ELSE VERIFICATION_LOGS.recent_requests[1]]]
    /\ UNCHANGED <<mainVars, clientVars, scorerVars, edgeVars, VERIFICATION_LOGS, console, clock>>

\* await this.kv.put(recentListKey, JSON.stringify(updatedList), ...)
PutRecent(q) ==
    /\ logCall[q].pc = "putRecent"
    /\ VERIFICATION_LOGS' =
          [VERIFICATION_LOGS EXCEPT
              !.recent_requests = Some(updatedList(q, logCall[q].recentRequests))]
    /\ logCall' = [logCall EXCEPT ![q] = Settle(@, "returned", "none")]
    /\ UNCHANGED <<mainVars, clientVars, scorerVars, edgeVars, console, clock>>

\* the get or the put of the recent list rejects: the inner catch, lines 80-83
RecentFails(q) ==
    /\ logCall[q].pc \in {"getRecent", "putRecent"}
    /\ console' = Append(console, [level |-> "error",
                                   text |-> "Error updating recent requests list",
                                   entry |-> null])
    /\ logCall' = [logCall EXCEPT ![q] = CatchKvFailure(@, "recent")]
    /\ UNCHANGED <<mainVars, clientVars, scorerVars, edgeVars, VERIFICATION_LOGS, clock>>

NextLogger ==
    \/ Tick
    \/ \E q \in RequestIds, step \in Steps : LoggerLog(q, step)
    \/ \E q \in RequestIds : PutEntry(q)
    \/ \E q \in RequestIds : PutRequestList(q)
    \/ \E q \in RequestIds : PutFails(q)
    \/ \E q \in RequestIds : GetRecent(q)
    \/ \E q \in RequestIds : PutRecent(q)
    \/ \E q \in RequestIds : RecentFails(q)

SpecLogger == InitClient /\ [][NextLogger]_vars

\* Logger.getRequestLogs: kv.list({ prefix }), one kv.get per key, then the
\* entries sorted by timestamp, newest first
ListKeys(kv, q) == {t \in Times : kv.log[<<q, t>>] # null}

RECURSIVE SortNewestFirst(_, _, _)
SortNewestFirst(kv, q, keys) ==
    IF keys = {} THEN <<>>
    ELSE <<kv.log[<<q, Max(keys)>>][1]>>
           \o SortNewestFirst(kv, q, keys \ {Max(keys)})

getRequestLogs(kv, q) == SortNewestFirst(kv, q, ListKeys(kv, q))

\* the index as earlier requests left it: RECENT_LIMIT ids, all different
FullIndex == [i \in 1..RECENT_LIMIT |-> "old" \o ToString(i)]

InitIndex ==
    /\ \E index \in {null, Some(FullIndex)} : InitWith(index)
    /\ certificates["c1"].verification_status = "pending"
    /\ certificates["c1"].certificate_url
    /\ certificates["c1"].verification_url_pdf

\* the Logger with a working store: no put and no get rejects
NextWorkingStore ==
    \/ Tick
    \/ \E q \in RequestIds, step \in Steps : LoggerLog(q, step)
    \/ \E q \in RequestIds : PutEntry(q)
    \/ \E q \in RequestIds : PutRequestList(q)
    \/ \E q \in RequestIds : GetRecent(q)
    \/ \E q \in RequestIds : PutRecent(q)

SpecIndex == InitIndex /\ [][NextWorkingStore]_vars

(***************************************************************************)
(* Calls of the confidence scorer                                          *)
(***************************************************************************)
MaxAnalyses == 2

Analyze(result) ==
    /\ Len(analyses) < MaxAnalyses
    /\ analyses' = Append(analyses, [input |-> result,
                                     output |-> analyzeVerificationConfidence(result)])
    /\ UNCHANGED <<mainVars, clientVars, loggerVars, edgeVars>>

NextScorer == \E result \in ScorerInputs : Analyze(result)

SpecScorer == InitClient /\ [][NextScorer]_vars

(***************************************************************************)
(* checkRateLimit (src/src/integrations/securityEnhancements.ts): the      *)
(* calls of the model carry the same ip, endpoint and window, hence the    *)
(* same rateLimitKey; the awaits on env.CACHE.get and env.CACHE.put are    *)
(* the points where another call may run                                   *)
(***************************************************************************)
\* currentValue ? parseInt(currentValue, 10) : 0
ParseCount(currentValue) == IF currentValue = null THEN 0 ELSE currentValue[1]

\* return { allowed: false, remaining: 0, ... }
Exceeded(call) ==
    [call EXCEPT !.pc = "done", !.allowed = FALSE, !.remaining = 0]

\* return { allowed: true, remaining: limit - (currentCount + 1), ... }
Allowed(call) ==
    [call EXCEPT !.pc = "done", !.allowed = TRUE,
                 !.remaining = call.limit - (call.currentCount + 1)]

FailOpen_Denies(call) ==
    [call EXCEPT !.pc = "done", !.allowed = FALSE, !.remaining = 0,
                 !.logged = "Rate limiting error:"]

\* the outer catch: return { allowed: true, remaining: 0, ... }
FailOpen(call) ==
    [call EXCEPT !.pc = "done", !.allowed = TRUE, !.remaining = 0,
                 !.logged = "Rate limiting error:"]

\* a request of the client arrives: rateLimitMiddleware calls checkRateLimit
CheckRateLimit(k, l) ==
    /\ limiter[k].pc = "idle"
    /\ \A q \in LimiterCalls : q < k => limiter[q].pc # "idle"
    /\ \A q \in LimiterCalls : limiter[q].pc # "idle" => limiter[q].limit = l
    /\ limiter' = [limiter EXCEPT ![k] = [@ EXCEPT !.pc = "get", !.limit = l]]
    /\ UNCHANGED <<mainVars, clientVars, loggerVars, scorerVars, healthVars,
                   ratelimit, limiterFaults>>

\* const currentValue = await env.CACHE.get(rateLimitKey); if (currentCount >= limit)
RateGet(k) ==
    /\ limiter[k].pc = "get"
    /\ LET call == [limiter[k] EXCEPT !.currentCount = ParseCount(ratelimit)]
       IN limiter' = [limiter EXCEPT ![k] =
                        IF call.currentCount >= call.limit
                        THEN Exceeded(call)
                        ELSE [call EXCEPT !.pc = "put"]]
    /\ UNCHANGED <<mainVars, clientVars, loggerVars, scorerVars, healthVars,
                   ratelimit, limiterFaults>>

\* env.CACHE.get rejects
RateGetFails(k) ==
    /\ limiter[k].pc = "get"
    /\ limiterFaults < MaxFaults
    /\ limiterFaults' = limiterFaults + 1
    /\ limiter' = [limiter EXCEPT ![k] = FailOpen(@)]
    /\ UNCHANGED <<mainVars, clientVars, loggerVars, scorerVars, healthVars,
                   ratelimit>>

\* await env.CACHE.put(rateLimitKey, (currentCount + 1).toString(), ...)
RatePut(k) ==
    /\ limiter[k].pc = "put"
    /\ ratelimit' = Some(limiter[k].currentCount + 1)
    /\ limiter' = [limiter EXCEPT ![k] = Allowed(@)]
    /\ UNCHANGED <<mainVars, clientVars, loggerVars, scorerVars, healthVars,
                   limiterFaults>>

\* env.CACHE.put rejects: the inner catch logs it and the call goes on
RatePutFails(k) ==
    /\ limiter[k].pc = "put"
    /\ limiterFaults < MaxFaults
    /\ limiterFaults' = limiterFaults + 1
    /\ limiter' = [limiter EXCEPT ![k] =
                     Allowed([@ EXCEPT !.logged = "Failed to update rate limit counter:"])]
    /\ UNCHANGED <<mainVars, clientVars, loggerVars, scorerVars, healthVars,
                   ratelimit>>

NextLimiter ==
    \/ \E k \in LimiterCalls, l \in Limits : CheckRateLimit(k, l)
    \/ \E k \in LimiterCalls : RateGet(k)
    \/ \E k \in LimiterCalls : RateGetFails(k)
    \/ \E k \in LimiterCalls : RatePut(k)
    \/ \E k \in LimiterCalls : RatePutFails(k)

SpecLimiter == InitClient /\ [][NextLimiter]_vars

(***************************************************************************)
(* performHealthCheck (src/src/utilities/healthCheck.ts): the checks of    *)
(* the environment variables need no await; the database probe and the put *)
(* and get of each KV probe are one action each                            *)
(***************************************************************************)
\* if (!env.X) { checks.x = error; overallStatus = 'degraded' } else { checks.x = ok }
CheckVariable(configured, name) ==
    IF configured THEN CheckOk ELSE CheckError(name \o " is not configured")

\* GET /health: the two environment checks, then the database probe is awaited
PerformHealthCheck(key, secret) ==
    /\ health.pc = "idle"
    /\ health' = [health EXCEPT
                    !.pc = "database",
                    !.MISTRAL_API_KEY = key,
                    !.JWT_SECRET = secret,
                    !.checks.mistral_api = CheckVariable(key, "MISTRAL_API_KEY"),
                    !.checks.jwt_secret = CheckVariable(secret, "JWT_SECRET"),
                    !.overallStatus = IF key /\ secret THEN "ok" ELSE "degraded"]
    /\ UNCHANGED <<mainVars, clientVars, loggerVars, scorerVars, limiterVars,
                   health_check>>

\* const dbCheck = await env.DB.prepare('SELECT 1').first(); if (dbCheck) ...
DatabaseCheck(dbCheck) ==
    /\ health.pc = "database"
    /\ health' = IF dbCheck
                 THEN [health EXCEPT !.pc = "logsPut",
                                     !.checks.database = CheckOk]
                 ELSE [health EXCEPT !.pc = "logsPut",
                                     !.checks.database =
                                        CheckError("Database connection check failed"),
                                     !.overallStatus = "error"]
    /\ UNCHANGED <<mainVars, clientVars, loggerVars, scorerVars, limiterVars,
                   health_check>>

\* the database probe rejects
DatabaseCheckFails ==
    /\ health.pc = "database"
    /\ health' = [health EXCEPT !.pc = "logsPut",
                                !.checks.database = CheckError("Database error"),
                                !.overallStatus = "error"]
    /\ UNCHANGED <<mainVars, clientVars, loggerVars, scorerVars, limiterVars,
                   health_check>>

\* the positions of the probe of a namespace, and the name of its check
PutPc(ns) == IF ns = "VERIFICATION_LOGS" THEN "logsPut" ELSE "cachePut"
GetPc(ns) == IF ns = "VERIFICATION_LOGS" THEN "logsGet" ELSE "cacheGet"
AfterPc(ns) == IF ns = "VERIFICATION_LOGS" THEN "cachePut" ELSE "done"

\* checks.verification_logs / checks.cache = error; overallStatus = 'degraded'
KvCheckFailed(call, ns, details) ==
    IF ns = "VERIFICATION_LOGS"
    THEN [call EXCEPT !.pc = AfterPc(ns),
                      !.checks.verification_logs = CheckError(details),
                      !.overallStatus = "degraded"]
    ELSE [call EXCEPT !.pc = AfterPc(ns),
                      !.checks.cache = CheckError(details),
                      !.overallStatus = "degraded"]

KvCheckOk(call, ns) ==
    IF ns = "VERIFICATION_LOGS"
    THEN [call EXCEPT !.pc = AfterPc(ns), !.checks.verification_logs = CheckOk]
    ELSE [call EXCEPT !.pc = AfterPc(ns), !.checks.cache = CheckOk]

\* await env.<ns>.put('health_check', 'ok', { expirationTtl: 60 })
KvPut(ns) ==
    /\ health.pc = PutPc(ns)
    /\ health_check' = [health_check EXCEPT ![ns] = Some("ok")]
    /\ health' = [health EXCEPT !.pc = GetPc(ns)]
    /\ UNCHANGED <<mainVars, clientVars, loggerVars, scorerVars, limiterVars>>

\* const value = await env.<ns>.get('health_check'); if (value === 'ok') ...
\* a KV read may not see the write made just before it
KvGet(ns, value) ==
    /\ health.pc = GetPc(ns)
    /\ value \in {health_check[ns], null}
    /\ health' = IF value = Some("ok")
                 THEN KvCheckOk(health, ns)
                 ELSE KvCheckFailed(health, ns, ns \o " KV check failed")
    /\ UNCHANGED <<mainVars, clientVars, loggerVars, scorerVars, limiterVars,
                   health_check>>

\* the put or the get rejects: catch (error)
KvFails(ns) ==
    /\ health.pc \in {PutPc(ns), GetPc(ns)}
    /\ health' = KvCheckFailed(health, ns, ns \o " KV error")
    /\ UNCHANGED <<mainVars, clientVars, loggerVars, scorerVars, limiterVars,
                   health_check>>

NextHealth ==
    \/ \E key \in BOOLEAN, secret \in BOOLEAN : PerformHealthCheck(key, secret)
    \/ \E dbCheck \in BOOLEAN : DatabaseCheck(dbCheck)
    \/ DatabaseCheckFails
    \/ \E ns \in Namespaces : KvPut(ns)
    \/ \E ns \in Namespaces, value \in {null, Some("ok")} : KvGet(ns, value)
    \/ \E ns \in Namespaces : KvFails(ns)

SpecHealth == InitClient /\ [][NextHealth]_vars

(***************************************************************************)
(* Vocabulary of the properties                                            *)
(***************************************************************************)
Last(seq) == seq[Len(seq)]

Returned(r) == pc[r] = "done"

\* the row the run read from the certificates table, if it read one
HasRead(r) == certificate[r] # null
ReadStatus(r) == certificate[r][1].verification_status

\* rows of the durable log written by a run
RowsOf(r) == {l \in verification_logs : l.id[1] = r}

\* the run executed a status update on certificate c
Updated(r, c) == \E i \in 1..Len(writes[c]) : writes[c][i].run = r
UpdatedAny(r) == \E c \in CertIds : Updated(r, c)

\* successful Analysis Client calls made with the documents of certificate c
SuccessfulCalls(c) ==
    UNION {{<<r, i>> : i \in {j \in DOMAIN mistralCalls[r] :
                                  /\ mistralCalls[r][j].documents = c
                                  /\ mistralCalls[r][j].ok}} : r \in Runs}

\* the run went through the cache-miss path to the end
CompletedRun(r) ==
    /\ Returned(r)
    /\ verificationResult[r] # null
    /\ outcome[r] = Completed(verificationResult[r][1])

(***************************************************************************)
(* C1: a run that reads a certificate whose stored verification_status is  *)
(* 'verified' returns success=true with status 'verified' and makes no     *)
(* verifyCertificate call.                                                 *)
(***************************************************************************)
C1_VerifiedShortCircuit ==
    \A r \in Runs :
        (HasRead(r) /\ ReadStatus(r) = "verified") =>
            /\ Returned(r)
            /\ outcome[r].success = TRUE
            /\ outcome[r].status = "verified"
            /\ mistralCalls[r] = <<>>

\* a run re-invoked on a certificate that an earlier run verified
C1_Witness ==
    \E r \in Runs :
        /\ HasRead(r) /\ ReadStatus(r) = "verified" /\ Returned(r)
        /\ writes[certificateId[r]] # <<>>

(***************************************************************************)
(* C2: over any interleaving of verify runs, the Analysis Client is called *)
(* successfully at most once per certificate.                              *)
(***************************************************************************)
C2_AtMostOneSuccessfulCall ==
    \A c \in CertIds : Cardinality(SuccessfulCalls(c)) <= 1

(***************************************************************************)
(* C3: a stored verification_status only ever changes pending -> verified  *)
(* or pending -> rejected; a terminal status never changes.                *)
(***************************************************************************)
C3_MonotonicStatus ==
    [][\A c \in CertIds :
         certificates'[c].verification_status # certificates[c].verification_status
            => /\ certificates[c].verification_status = "pending"
               /\ certificates'[c].verification_status \in {"verified", "rejected"}]_vars

(***************************************************************************)
(* C4: a run that reads the certificate in a terminal state ('verified' or *)
(* 'rejected') never invokes the Analysis Client, with or without a cache  *)
(* entry.                                                                  *)
(***************************************************************************)
C4_TerminalShortCircuit ==
    \A r \in Runs :
        (HasRead(r) /\ ReadStatus(r) \in {"verified", "rejected"}) =>
            mistralCalls[r] = <<>>

(***************************************************************************)
(* C5: every run that misses the cache and gets a result from the Analysis *)
(* Client executes its status update even if another run updated the row   *)
(* before, and the stored verification_status and verification_details are *)
(* those of the update executed last.                                      *)
(***************************************************************************)
C5_LastWriteWins ==
    /\ \A c \in CertIds :
          writes[c] # <<>> =>
             /\ certificates[c].verification_status = Last(writes[c]).status
             /\ certificates[c].verification_details =
                   JSONstringify(Last(writes[c]).details)
    /\ \A r \in Runs :
          CompletedRun(r) =>
             /\ Updated(r, certificateId[r])
             /\ \E i \in 1..Len(writes[certificateId[r]]) :
                   /\ writes[certificateId[r]][i].run = r
                   /\ writes[certificateId[r]][i].status = outcome[r].status

\* two runs both called the client and both updated; the caller of the
\* first update was told a status the row no longer has
C5_Witness ==
    \E r1, r2 \in Runs :
        /\ r1 # r2
        /\ certificateId[r1] = certificateId[r2]
        /\ CompletedRun(r1) /\ CompletedRun(r2)
        /\ cachedResult[r1] = null /\ cachedResult[r2] = null
        /\ Len(writes[certificateId[r1]]) = 2
        /\ outcome[r1].status # outcome[r2].status
        /\ Last(writes[certificateId[r1]]).run = r2
        /\ certificates[certificateId[r1]].verification_status # outcome[r1].status

(***************************************************************************)
(* C6: if the Result Cache holds an entry for a certificate then the most  *)
(* recently completed Analysis Client call for it succeeded.               *)
(***************************************************************************)
C6_CacheEntryImpliesLastCallSucceeded ==
    \A c \in CertIds : CACHE[c] # null => lastCall[c] = "succeeded"

(***************************************************************************)
(* C7: a run whose cache read returns an entry returns success=true with   *)
(* that entry as details and records cache_hit; the run writes no durable  *)
(* log row, makes no Analysis Client call, executes no status update and   *)
(* no cache write, and its cache read step leaves the certificates table,  *)
(* the log table and the cache as they were.                               *)
(***************************************************************************)
\* the run's CACHE.get is executed and finds an entry
C7_HitStep(r) ==
    /\ pc[r] = "cacheGet"
    /\ kvOps'[r] # kvOps[r]
    /\ CACHE[certificateId[r]] # null

C7_CacheHit ==
    /\ [](\A r \in Runs :
             cachedResult[r] # null =>
                /\ Returned(r)
                /\ outcome[r].success = TRUE
                /\ outcome[r].details = cachedResult[r]
                /\ Last(audit[r]) = "cache_hit"
                /\ RowsOf(r) = {}
                /\ mistralCalls[r] = <<>>
                /\ ~UpdatedAny(r)
                /\ kvOps[r] = <<"get">>)
    /\ [][\A r \in Runs :
             C7_HitStep(r) =>
                /\ pc'[r] = "done"
                /\ outcome'[r].details = Some(JSONparse(CACHE[certificateId[r]]))
                /\ certificates' = certificates
                /\ verification_logs' = verification_logs
                /\ CACHE' = CACHE]_vars

\* a hit on an entry that another run wrote
C7_Witness ==
    \E r \in Runs :
        /\ cachedResult[r] # null
        /\ Returned(r)
        /\ \E q \in Runs : q # r /\ kvOps[q] = <<"get", "put">>

(***************************************************************************)
(* C8 as stated: a run that reads a non-verified certificate lacking       *)
(* certificate_url or verification_url_pdf returns the missing-documents   *)
(* failure, never calls the Analysis Client, changes neither the stored    *)
(* status nor the cache, and appends exactly one durable row, with step    *)
(* 'document_check'.                                                       *)
(***************************************************************************)
MissingDocumentCase(r) ==
    /\ HasRead(r)
    /\ ReadStatus(r) # "verified"
    /\ ~(certificate[r][1].certificate_url /\ certificate[r][1].verification_url_pdf)

NoAnalysisNoWrites(r) ==
    /\ mistralCalls[r] = <<>>
    /\ ~UpdatedAny(r)
    /\ kvOps[r] = <<>>

C8_MissingDocuments_AsStated ==
    \A r \in Runs :
        (MissingDocumentCase(r) /\ Returned(r)) =>
            /\ outcome[r] = MissingDocuments
            /\ NoAnalysisNoWrites(r)
            /\ Cardinality(RowsOf(r)) = 1
            /\ \A l \in RowsOf(r) : l.verification_step = "document_check"

(***************************************************************************)
(* C8 amended: in the missing-document case the run never calls the        *)
(* Analysis Client and changes neither the stored status nor the cache;    *)
(* when the insert of the 'document_check' row succeeds it returns the     *)
(* missing-documents failure and that row is the only durable row of the   *)
(* run; when the insert fails the run returns the generic 'Verification    *)
(* process failed' outcome and has written no 'document_check' row.        *)
(***************************************************************************)
C8_MissingDocuments ==
    \A r \in Runs :
        MissingDocumentCase(r) =>
            /\ NoAnalysisNoWrites(r)
            /\ pc[r] \in {"documentCheckLog", "catch", "done"}
            /\ (Returned(r) /\ thrown[r] = "") =>
                  /\ outcome[r] = MissingDocuments
                  /\ outcome[r].message # ProcessFailed("Certificate verification failed").message
                  /\ Cardinality(RowsOf(r)) = 1
                  /\ \A l \in RowsOf(r) : l.verification_step = "document_check"
            /\ (Returned(r) /\ thrown[r] # "") =>
                  /\ outcome[r] = ProcessFailed(thrown[r])
                  /\ \A l \in RowsOf(r) : l.verification_step = "verification_error"

\* a certificate without certificate_url, the document_check row written
C8_Witness ==
    \E r \in Runs :
        /\ MissingDocumentCase(r)
        /\ ~certificate[r][1].certificate_url
        /\ Returned(r)
        /\ outcome[r] = MissingDocuments
        /\ \E l \in RowsOf(r) : l.verification_step = "document_check"

(***************************************************************************)
(* C9 as stated: if the user does not exist, or the certificate does not   *)
(* exist for that user, the run returns success=false after recording      *)
(* user_not_found / certificate_not_found, with no Analysis Client call,   *)
(* no cache read or write, no durable log row and no status update.        *)
(***************************************************************************)
UserAbsent(r) == pc[r] # "idle" /\ userId[r] \notin Users

CertificateAbsent(r) ==
    /\ pc[r] # "idle"
    /\ userId[r] \in Users
    /\ \/ certificateId[r] \notin CertIds
       \/ certificates[certificateId[r]].user_id # userId[r]

NotFoundExit(r, step) ==
    /\ outcome[r].success = FALSE
    /\ Last(audit[r]) = step
    /\ NoAnalysisNoWrites(r)
    /\ RowsOf(r) = {}

C9_NotFound_AsStated ==
    \A r \in Runs :
        /\ (UserAbsent(r) /\ Returned(r)) => NotFoundExit(r, "user_not_found")
        /\ (CertificateAbsent(r) /\ Returned(r)) =>
              NotFoundExit(r, "certificate_not_found")

(***************************************************************************)
(* C9 amended: the same, provided the getUser and getCertificate queries   *)
(* of the run do not fail; a run whose lookup fails still makes no         *)
(* Analysis Client call, no cache access and no status update, returns     *)
(* success=false, and may write one 'verification_error' row.              *)
(***************************************************************************)
C9_NotFound ==
    \A r \in Runs :
        (UserAbsent(r) \/ CertificateAbsent(r)) =>
            /\ NoAnalysisNoWrites(r)
            /\ pc[r] \in {"getUser", "getCertificate", "catch", "done"}
            /\ Returned(r) =>
                  /\ outcome[r].success = FALSE
                  /\ outcome[r].details = undefined
            /\ (Returned(r) /\ thrown[r] = "" /\ UserAbsent(r)) =>
                  /\ NotFoundExit(r, "user_not_found")
                  /\ outcome[r] = UserNotFound
            /\ (Returned(r) /\ thrown[r] = "" /\ CertificateAbsent(r)) =>
                  /\ NotFoundExit(r, "certificate_not_found")
                  /\ outcome[r] = CertificateNotFound
            /\ (Returned(r) /\ thrown[r] # "") =>
                  /\ Last(audit[r]) = "verification_error"
                  /\ Cardinality(RowsOf(r)) <= 1
                  /\ \A l \in RowsOf(r) : l.verification_step = "verification_error"

\* both exits taken: an unknown user, and a known user with an unknown certificate
C9_Witness ==
    \E r1, r2 \in Runs :
        /\ UserAbsent(r1) /\ Returned(r1) /\ outcome[r1] = UserNotFound
        /\ CertificateAbsent(r2) /\ certificateId[r2] \notin CertIds
        /\ Returned(r2) /\ outcome[r2] = CertificateNotFound

(***************************************************************************)
(* C10: for an existing user u and a certificate c owned by another user,  *)
(* verify(u, c) never returns details, never calls the Analysis Client     *)
(* with c's documents, never reads or writes the cache and never updates   *)
(* c, also when the cache holds an entry under c's id.                     *)
(***************************************************************************)
CrossUser(r) ==
    /\ pc[r] # "idle"
    /\ userId[r] \in Users
    /\ certificateId[r] \in CertIds
    /\ certificates[certificateId[r]].user_id # userId[r]

AnalysisFailed(r) ==
    \E i \in DOMAIN mistralCalls[r] : ~mistralCalls[r][i].ok

ErrorRows(r) == {l \in RowsOf(r) : l.verification_step = "verification_error"}

C11_AnalysisFailure_AsStated ==
    \A r \in Runs :
        (AnalysisFailed(r) /\ Returned(r)) =>
            /\ Len(mistralCalls[r]) = 1
            /\ Last(audit[r]) = "verification_error"
            /\ ErrorRows(r) # {}
            /\ outcome[r].success = FALSE
            /\ ~UpdatedAny(r)
            /\ kvOps[r] = <<"get">>

(***************************************************************************)
(* C11 amended: when the Analysis Client call fails, the run makes no      *)
(* second call, records verification_error in the audit log, returns       *)
(* success=false with the message of the failure and executes no status    *)
(* update and no cache write; it writes at most one durable                *)
(* 'verification_error' row, and exactly one when no record-store call     *)
(* fails.                                                                  *)
(***************************************************************************)
C11_AnalysisFailure ==
    \A r \in Runs :
        AnalysisFailed(r) =>
            /\ Len(mistralCalls[r]) = 1
            /\ pc[r] \in {"catch", "done"}
            /\ verificationResult[r] = null
            /\ ~UpdatedAny(r)
            /\ kvOps[r] = <<"get">>
            /\ Returned(r) =>
                  /\ Last(audit[r]) = "verification_error"
                  /\ outcome[r] = ProcessFailed("Certificate verification failed")
                  /\ outcome[r].success = FALSE
                  /\ Cardinality(ErrorRows(r)) <= 1
                  /\ faults = 0 => Cardinality(ErrorRows(r)) = 1

\* the failure of the call recorded in both logs
C11_Witness ==
    \E r \in Runs :
        /\ AnalysisFailed(r)
        /\ Returned(r)
        /\ ErrorRows(r) # {}
        /\ Last(audit[r]) = "verification_error"

(***************************************************************************)
(* C12: the status written to the store and returned on the cache-miss     *)
(* path is 'verified' exactly when total_verification is 'pass' and        *)
(* verification_url_valid is the boolean true, and 'rejected' otherwise,   *)
(* absent and non-boolean fields included; the confidence scores do not    *)
(* enter the decision.                                                     *)
(***************************************************************************)
PassAndValid(result) ==
    /\ result.total_verification = "pass"
    /\ result.verification_url_valid = "true"

C12_StatusDecision ==
    /\ \A c \in CertIds : \A i \in DOMAIN writes[c] :
          /\ writes[c][i].status \in {"verified", "rejected"}
          /\ writes[c][i].status = "verified" <=> PassAndValid(writes[c][i].details)
    /\ \A r \in Runs :
          (Returned(r) /\ verificationResult[r] # null /\ thrown[r] = "") =>
             /\ outcome[r].status \in {"verified", "rejected"}
             /\ outcome[r].status = "verified" <=> PassAndValid(verificationResult[r][1])

\* 'verified' written although the scorer does not pass the result, and
\* 'rejected' written for a result the scorer passes
C12_Witness ==
    \E c \in CertIds : \E i, j \in DOMAIN writes[c] :
        /\ writes[c][i].status = "verified"
        /\ isPassing(ScorerInput(writes[c][i].details)) = "false"
        /\ writes[c][j].status = "rejected"
        /\ isPassing(ScorerInput(writes[c][j].details)) = "true"
        /\ writes[c][j].details.verification_url_valid = "'true'"

(***************************************************************************)
(* C13: if the status update fails after the Analysis Client succeeded,    *)
(* the run returns success=false and the outcome carries the               *)
(* AnalysisResult that was obtained.                                       *)
(***************************************************************************)
C13_StorageFailureCarriesResult ==
    \A r \in Runs :
        (/\ Returned(r)
         /\ thrown[r] = "Database error: Failed to update certificate verification") =>
            /\ outcome[r].success = FALSE
            /\ outcome[r].details = verificationResult[r]

(***************************************************************************)
(* C14: if the durable 'verification_completed' insert fails after the     *)
(* status update succeeded, the run returns what it returns when the       *)
(* insert succeeds: success=true with newStatus and the AnalysisResult.    *)
(***************************************************************************)
C14_CompletedLogBestEffort ==
    \A r \in Runs :
        (/\ Returned(r)
         /\ UpdatedAny(r)
         /\ thrown[r] = "Database error: Failed to create verification log") =>
            outcome[r] = Completed(verificationResult[r][1])

(***************************************************************************)
(* C15: a failing cache read or cache write-back is not propagated: the    *)
(* run does not return the failure, and after a failed write-back it       *)
(* returns the outcome of the successful path.                             *)
(***************************************************************************)
CacheErrors == {"KV GET failed", "KV PUT failed"}

C15_CacheFailuresAbsorbed ==
    \A r \in Runs :
        (Returned(r) /\ thrown[r] \in CacheErrors) =>
            /\ outcome[r].message # ProcessFailed(thrown[r]).message
            /\ thrown[r] = "KV PUT failed" =>
                  outcome[r] = Completed(verificationResult[r][1])

(***************************************************************************)
(* C17: a run that reads a pending certificate with both document          *)
(* references, misses the cache,                                           *)
(* receives total_verification='pass' and verification_url_valid=true and  *)
(* meets no collaborator failure ends with the stored status 'verified',   *)
(* the cache holding that result, and exactly one 'verification_completed' *)
(* row for the certificate, whose status is 'verified'.                    *)
(***************************************************************************)
EndToEndCase(r) ==
    /\ HasRead(r)
    /\ ReadStatus(r) = "pending"
    /\ certificate[r][1].certificate_url /\ certificate[r][1].verification_url_pdf
    /\ kvOps[r] # <<>> /\ cachedResult[r] = null
    /\ verificationResult[r] # null
    /\ verificationResult[r][1].total_verification = "pass"
    /\ verificationResult[r][1].verification_url_valid = "true"
    /\ thrown[r] = ""

CompletedRows(c) ==
    {l \in verification_logs :
        l.certificate_id = c /\ l.verification_step = "verification_completed"}

EndToEndResult(r) ==
    /\ certificates[certificateId[r]].verification_status = "verified"
    /\ certificates[certificateId[r]].verification_details =
          JSONstringify(verificationResult[r][1])
    /\ CACHE[certificateId[r]] = JSONstringify(verificationResult[r][1])
    /\ Cardinality(CompletedRows(certificateId[r])) = 1
    /\ \A l \in CompletedRows(certificateId[r]) : l.status = "verified"
    /\ outcome[r].success = TRUE
    /\ outcome[r].status = "verified"
    /\ outcome[r].details = verificationResult[r]

C17_EndToEndSuccess ==
    [][\A r \in Runs :
         (pc[r] # "done" /\ pc'[r] = "done" /\ EndToEndCase(r)') =>
            EndToEndResult(r)']_vars

(***************************************************************************)
(* C18: a run that reads a certificate stored as 'verified' together with  *)
(* its verification details returns success with those stored details.     *)
(***************************************************************************)
C18_VerifiedReturnsStoredDetails ==
    \A r \in Runs :
        (/\ HasRead(r)
         /\ ReadStatus(r) = "verified"
         /\ certificate[r][1].verification_details # null
         /\ Returned(r)) =>
            /\ outcome[r].success = TRUE
            /\ outcome[r].details =
                  Some(JSONparse(certificate[r][1].verification_details))

(***************************************************************************)
(* C19: reply extraction tries, in order, the content of a json fence,     *)
(* the content of a generic fence, the brace span and the whole text, and  *)
(* the first candidate that parses as JSON is the value returned; the call *)
(* fails only when no candidate parses.                                    *)
(***************************************************************************)
IsText(res) ==
    /\ res.response # null
    /\ res.response[1].ok
    /\ res.response[1].choices
    /\ res.response[1].type = "string"

ContentOf(res) == res.response[1].content

BraceSpan(content) ==
    IF MatchBraces(content) = null THEN null
    ELSE Some(SubSeq(content, Min(Indices(content, BraceSpans \cup Opens)),
                              Max(Indices(content, BraceSpans \cup {Close}))))

Candidates(content) ==
    <<MatchFence(content, {"~~~json"}), MatchFence(content, Fences),
      BraceSpan(content), Some(content)>>

FirstParsing(content) ==
    LET parsing == {i \in 1..4 : /\ Candidates(content)[i] # null
                                /\ JSONparseText(Candidates(content)[i][1]) # null}
    IN  IF parsing = {} THEN null
        ELSE JSONparseText(Candidates(content)[Min(parsing)][1])

C19_ExtractionOrder ==
    \A k \in DOMAIN results :
        IsText(results[k]) =>
            IF FirstParsing(ContentOf(results[k])) = null
            THEN results[k].state = "rejected"
            ELSE /\ results[k].state = "fulfilled"
                 /\ results[k].value = FirstParsing(ContentOf(results[k]))

(***************************************************************************)
(* C20: a reply whose text is a json fence, a valid JSON object and a      *)
(* closing fence is parsed from the fenced group and returned; a reply     *)
(* whose text is prose only makes verifyCertificate reject; either call    *)
(* makes exactly one HTTP call.                                            *)
(***************************************************************************)
FencedObject(content) ==
    /\ Len(content) = 3
    /\ content[1] = "~~~json"
    /\ content[2] \in ValidObjects
    /\ content[3] = "~~~"

PlainProse(content) ==
    /\ content # <<>>
    /\ \A i \in DOMAIN content : content[i] = "text"

Emitted(level, text, entry) ==
    \E i \in DOMAIN console :
        console[i] = [level |-> level, text |-> text, entry |-> entry]

LoggerReturnsNormally ==
    \A q \in RequestIds : \A i \in DOMAIN logCall[q].settled :
        LET call == logCall[q].settled[i] IN
        /\ call.how = "returned"
        /\ call.failure = "put" =>
              /\ Emitted("error", "Failed to write log to KV", null)
              /\ Emitted("log", "entry", Some(LogEntry(q, call.timestamp, call.step)))
        /\ call.failure = "recent" =>
              Emitted("error", "Error updating recent requests list", null)

C21_NonSuccessStatus ==
    \A k \in DOMAIN results :
        (results[k].response # null /\ ~results[k].response[1].ok) =>
            /\ results[k].state = "rejected"
            /\ results[k].value = null
            /\ results[k].via = "none"
            /\ results[k].fetches = 1

\* a non-success answer whose body would parse as a result was rejected
C21_Witness ==
    \E k \in DOMAIN results :
        /\ results[k].response # null
        /\ ~results[k].response[1].ok
        /\ results[k].response[1].choices
        /\ results[k].response[1].content = <<"{pass}">>
        /\ results[k].state = "rejected"
        /\ results[k].fetches = 1

(***************************************************************************)
(* C22: for every AnalysisResult r, a reply whose message content is the   *)
(* JSON serialization of r makes verifyCertificate return a value equal to *)
(* r, with exactly one HTTP request.                                       *)
(***************************************************************************)
C22_BareJsonRoundTrip ==
    \A k \in DOMAIN results : \A r \in AnalysisResults :
        (IsText(results[k]) /\ ContentOf(results[k]) = JSONstringifyText(r)) =>
            /\ results[k].state = "fulfilled"
            /\ results[k].value = Some(r)
            /\ results[k].fetches = 1

(***************************************************************************)
(* C23: a reply that parses as JSON but has not the AnalysisResult shape   *)
(* (no total_verification and verification_url_valid, or a null content)   *)
(* makes verifyCertificate reject: every value it returns is an object     *)
(* with total_verification 'pass' or 'fail' and a boolean                  *)
(* verification_url_valid.                                                 *)
(***************************************************************************)
HasAnalysisShape(value) ==
    /\ value # null
    /\ value[1].total_verification \in {"pass", "fail"}
    /\ value[1].verification_url_valid \in {"true", "false"}

C23_ShapeChecked ==
    \A k \in DOMAIN results :
        results[k].state = "fulfilled" => HasAnalysisShape(results[k].value)

(***************************************************************************)
(* C24: for every AnalysisResult, analyzeVerificationConfidence returns an *)
(* overallConfidence within [0,1] that is 0.5 * document_a score + 0.3 *   *)
(* document_b score + 0.2 if the URL is valid, a missing score counting as *)
(* 0; two calls with the same input return the same output.                *)
(***************************************************************************)
ScoreOrZero(record, field) ==
    IF record = null THEN 0
    ELSE IF record[1][field] = null THEN 0 ELSE record[1][field][1]

C24_OverallConfidence ==
    \A i \in DOMAIN analyses :
        LET in == analyses[i].input
            out == analyses[i].output
        IN  /\ out.state = "returned"
            /\ out.overallConfidence >= 0
            /\ out.overallConfidence <= 10000
            /\ out.overallConfidence =
                  50 * ScoreOrZero(in.document_a, "document_a_confidence_score")
                  + 30 * ScoreOrZero(in.document_b, "document_b_confidence_score")
                  + (IF in.verification_url_valid \in {"true", "'true'"}
                     THEN 2000 ELSE 0)
            /\ \A j \in DOMAIN analyses :
                  analyses[j].input = in => analyses[j].output = out

(***************************************************************************)
(* C25: for every AnalysisResult the scorer returns, isPassing is the      *)
(* boolean true exactly when overallConfidence >= 0.70 and                 *)
(* verification_url_valid is true and the document_a score >= 0.65, and    *)
(* the boolean false in every other case.                                  *)
(***************************************************************************)
C25_IsPassing ==
    \A i \in DOMAIN analyses :
        LET in == analyses[i].input
            out == analyses[i].output
        IN  out.state = "returned" =>
               /\ out.isPassing \in {"true", "false"}
               /\ out.isPassing = "true" <=>
                     /\ out.overallConfidence >= 7000
                     /\ in.verification_url_valid = "true"
                     /\ ScoreOrZero(in.document_a, "document_a_confidence_score") >= 65

(***************************************************************************)
(* C26: the reasons list the scorer returns holds, in this order, the      *)
(* low-document reason iff the document_a score < 0.65, the                *)
(* low-verification-page reason iff the document_b score < 0.60 and the    *)
(* invalid-URL reason iff verification_url_valid is false, null or absent; *)
(* the positive reason is present, alone, iff none of the three was added  *)
(* and isPassing is true.                                                  *)
(***************************************************************************)
LowDocument == "Certificate document has low confidence score"
LowPage == "Verification document has low confidence score"
InvalidUrl == "Verification URL appears invalid"
AllPassed == "All verification checks passed successfully"

Has(list, reason) == \E k \in DOMAIN list : list[k] = reason
Before(list, x, y) ==
    \A k, l \in DOMAIN list : (list[k] = x /\ list[l] = y) => k < l

C26_Reasons ==
    \A i \in DOMAIN analyses :
        LET in == analyses[i].input
            out == analyses[i].output
            list == out.reasons
        IN  out.state = "returned" =>
               /\ \A k \in DOMAIN list :
                     list[k] \in {LowDocument, LowPage, InvalidUrl, AllPassed}
               /\ \A k, l \in DOMAIN list : list[k] = list[l] => k = l
               /\ Has(list, LowDocument) <=>
                     ScoreOrZero(in.document_a, "document_a_confidence_score") < 65
               /\ Has(list, LowPage) <=>
                     ScoreOrZero(in.document_b, "document_b_confidence_score") < 60
               /\ Has(list, InvalidUrl) <=>
                     in.verification_url_valid \in {"false", "null", "undefined"}
               /\ Before(list, LowDocument, LowPage)
               /\ Before(list, LowDocument, InvalidUrl)
               /\ Before(list, LowPage, InvalidUrl)
               /\ Has(list, AllPassed) <=>
                     /\ ~Has(list, LowDocument)
                     /\ ~Has(list, LowPage)
                     /\ ~Has(list, InvalidUrl)
                     /\ out.isPassing = "true"

\* one call returned the three negative reasons, another the positive one
C26_Witness ==
    \E i, j \in DOMAIN analyses :
        /\ analyses[i].output.reasons = <<LowDocument, LowPage, InvalidUrl>>
        /\ analyses[j].output.reasons = <<AllPassed>>
        /\ analyses[j].output.isPassing = "true"

(***************************************************************************)
(* C27: after any sequence of Logger writes with a working store, the      *)
(* recent_requests index holds no correlation id twice and at most 1000    *)
(* entries, and each write of the index puts the writer's correlation id   *)
(* at position 0.                                                          *)
(***************************************************************************)
RecentRequests ==
    IF VERIFICATION_LOGS.recent_requests = null
    THEN <<>>
    ELSE VERIFICATION_LOGS.recent_requests[1]

IndexDeduplicatedAndCapped ==
    /\ Len(RecentRequests) <= RECENT_LIMIT
    /\ Cardinality({RecentRequests[i] : i \in DOMAIN RecentRequests})
          = Len(RecentRequests)

NewestFirst ==
    \A q \in RequestIds :
        (logCall[q].pc = "putRecent" /\ logCall'[q].pc = "idle") =>
            /\ VERIFICATION_LOGS'.recent_requests # null
            /\ VERIFICATION_LOGS'.recent_requests[1][1] = q

C27_RecentIndex ==
    /\ [](IndexDeduplicatedAndCapped)
    /\ [][NewestFirst]_vars

\* both requests wrote twice into a full index: the list is capped, the two
\* ids are at its head, once each
C27_Witness ==
    /\ Len(RecentRequests) = RECENT_LIMIT
    /\ \A q \in RequestIds : Len(logCall[q].settled) = MaxLogs
    /\ {RecentRequests[1], RecentRequests[2]} = RequestIds

(***************************************************************************)
(* C28: every run records 'verification_started' as its first audit entry, *)
(* and the last audit entry of a run that has returned names its exit:     *)
(* user_not_found, certificate_not_found, already_verified,                *)
(* missing_verification_documents, cache_hit, verification_status_updated  *)
(* or verification_error.                                                  *)
(***************************************************************************)
ExitEntry(r) ==
    IF thrown[r] # "" THEN "verification_error"
    ELSE IF outcome[r] = UserNotFound THEN "user_not_found"
    ELSE IF outcome[r] = CertificateNotFound THEN "certificate_not_found"
    ELSE IF outcome[r] = AlreadyVerified THEN "already_verified"
    ELSE IF outcome[r] = MissingDocuments THEN "missing_verification_documents"
    ELSE IF cachedResult[r] # null THEN "cache_hit"
    ELSE "verification_status_updated"

C28_AuditTrail ==
    \A r \in Runs :
        /\ pc[r] # "idle" => (audit[r] # <<>> /\ audit[r][1] = "verification_started")
        /\ pc[r] = "idle" => audit[r] = <<>>
        /\ \A i \in DOMAIN audit[r] : audit[r][i] = "verification_started" => i = 1
        /\ Returned(r) => Last(audit[r]) = ExitEntry(r)

\* the two runs left through different exits, one of them the catch block
C28_Witness ==
    \E r, q \in Runs :
        /\ Returned(r) /\ Returned(q)
        /\ Last(audit[r]) = "already_verified"
        /\ Last(audit[q]) = "verification_error"

(***************************************************************************)
(* C29: within one run, the Analysis Client is called only after the       *)
(* run's durable 'verification_process'/'started' row was written, and the *)
(* cache write-back happens only after the run's status update and its     *)
(* durable 'verification_completed' row both succeeded.                    *)
(***************************************************************************)
HasRow(r, step) == \E l \in RowsOf(r) : l.verification_step = step

C29_StepOrdering ==
    \A r \in Runs :
        /\ (pc[r] = "verifyCertificate" \/ mistralCalls[r] # <<>>) =>
              \E l \in RowsOf(r) :
                  l.verification_step = "verification_process" /\ l.status = "started"
        /\ (pc[r] = "cachePut" \/ \E i \in DOMAIN kvOps[r] : kvOps[r][i] = "put") =>
              /\ UpdatedAny(r)
              /\ mistralCalls[r] # <<>>
              /\ HasRow(r, "verification_completed")

\* a run wrote the cache after its call, its update and its two rows
C29_Witness ==
    \E r \in Runs :
        /\ \E i \in DOMAIN kvOps[r] : kvOps[r][i] = "put"
        /\ mistralCalls[r] # <<>>
        /\ UpdatedAny(r)
        /\ HasRow(r, "verification_process")
        /\ HasRow(r, "verification_completed")

(***************************************************************************)
(* C30: in every reachable state, a certificate for which the Result Cache *)
(* holds an entry has the stored status 'verified' or 'rejected', never    *)
(* 'pending'.                                                              *)
(***************************************************************************)
C30_CachedImpliesDecided ==
    \A c \in CertIds :
        CACHE[c] # null =>
            certificates[c].verification_status \in {"verified", "rejected"}

\* an entry is cached for a rejected certificate while another run on the
\* same certificate is between its analysis call and its update
C30_Witness ==
    \E c \in CertIds : \E r \in Runs :
        /\ CACHE[c] # null
        /\ certificates[c].verification_status = "rejected"
        /\ certificateId[r] = c
        /\ pc[r] = "update"

(***************************************************************************)
(* C31: a run that returns through the cache-hit path returns the status   *)
(* decided by the cached result: 'verified' iff the entry has              *)
(* total_verification = 'pass' and verification_url_valid = true, else     *)
(* 'rejected'; never 'pending', also when another run on the same          *)
(* certificate completes between this run's certificate read and its cache *)
(* read.                                                                   *)
(***************************************************************************)
CacheHitRun(r) == Returned(r) /\ cachedResult[r] # null

DecidedBy(result) == IF PassAndValid(result) THEN "verified" ELSE "rejected"

C31_CacheHitStatus ==
    \A r \in Runs :
        CacheHitRun(r) => outcome[r].status = DecidedBy(cachedResult[r][1])

(***************************************************************************)
(* C32: for a fixed client, endpoint, time window and limit, checkRateLimit*)
(* returns allowed=true for at most limit calls, under any interleaving of *)
(* concurrent calls, as long as the counter store does not fail.           *)
(***************************************************************************)
AllowedCalls == {k \in LimiterCalls : limiter[k].pc = "done" /\ limiter[k].allowed}

C32_RateLimitBound ==
    limiterFaults = 0 =>
        \A k \in AllowedCalls : Cardinality(AllowedCalls) <= limiter[k].limit

(***************************************************************************)
(* C33: the rate limiter fails open: a checkRateLimit call whose read or   *)
(* write of the counter fails returns allowed=true, it does not throw, and *)
(* the failed call leaves the stored counter unchanged.                    *)
(***************************************************************************)
\* the step in which env.CACHE fails under call k
LimiterFailure(k) ==
    /\ limiterFaults' = limiterFaults + 1
    /\ limiter'[k] # limiter[k]

C33_FailsOpen ==
    /\ [](\A k \in LimiterCalls :
             limiter[k].logged # "" =>
                 limiter[k].pc = "done" /\ limiter[k].allowed)
    /\ [][\A k \in LimiterCalls :
             LimiterFailure(k) =>
                /\ limiter'[k].pc = "done"
                /\ limiter'[k].allowed
                /\ limiter'[k].logged # ""
                /\ ratelimit' = ratelimit]_vars

\* the read of a call fails when the counter has already reached the limit
C33_Witness ==
    \E k \in LimiterCalls :
        /\ limiter[k].pc = "done"
        /\ limiter[k].logged = "Rate limiting error:"
        /\ limiter[k].allowed
        /\ ParseCount(ratelimit) >= limiter[k].limit

(***************************************************************************)
(* C34: processCertificateVerification is total: for every input and every *)
(* combination of collaborator failures, provided each collaborator call   *)
(* returns or fails, the run ends by returning an outcome value and never  *)
(* throws, so the 500 branch of handleVerification is not reached from it. *)
(***************************************************************************)
IsOutcome(value) ==
    /\ value.success \in BOOLEAN
    /\ value.status \in VerificationStatus
    /\ value.message # ""

C34_Total ==
    /\ [](\A r \in Runs :
             /\ pc[r] # "threw"
             /\ Returned(r) => IsOutcome(outcome[r]))
    /\ \A r \in Runs : (pc[r] # "idle") ~> Returned(r)

\* a run returns although two of its collaborator calls failed: one inside the
\* try block and the insert of the error row in the catch block
C34_Witness ==
    \E r \in Runs :
        /\ Returned(r)
        /\ thrown[r] # ""
        /\ ~\E l \in RowsOf(r) : l.verification_step = "verification_error"
        /\ certificateId[r] \in CertIds

(***************************************************************************)
(* C35: the HTTP response status for /verify/:userId/:certificateId is 200 *)
(* exactly when the outcome has success=true, and 400 for every            *)
(* unsuccessful outcome: not found, missing documents, analysis failure or *)
(* storage failure.                                                        *)
(***************************************************************************)
C35_ResponseStatus ==
    \A r \in Runs :
        /\ Returned(r) =>
              /\ httpResponse[r] = 200 <=> outcome[r].success
              /\ ~outcome[r].success => httpResponse[r] = 400
              /\ outcome[r] \in {UserNotFound, CertificateNotFound,
                                 MissingDocuments} => httpResponse[r] = 400
              /\ thrown[r] # "" => httpResponse[r] = 400
        /\ ~Returned(r) => httpResponse[r] = 0

\* one request answered 200 and another 400, for a user that does not exist
C35_Witness ==
    \E r, q \in Runs :
        /\ Returned(r) /\ outcome[r].success /\ httpResponse[r] = 200
        /\ Returned(q) /\ outcome[q] = UserNotFound /\ httpResponse[q] = 400

(***************************************************************************)
(* C36: in every state where no verify run for the certificate is in       *)
(* flight, if the Result Cache holds an entry for the certificate then the *)
(* entry equals the certificate's stored verification_details and the      *)
(* stored status is the decision derived from that entry, under any        *)
(* interleaving of earlier runs.                                           *)
(***************************************************************************)
InFlight(c) ==
    \E r \in Runs : certificateId[r] = c /\ pc[r] \notin {"idle", "done"}

C36_CacheAgreesWithStore ==
    \A c \in CertIds :
        (~InFlight(c) /\ CACHE[c] # null) =>
            /\ CACHE[c] = certificates[c].verification_details
            /\ certificates[c].verification_status = DecidedBy(JSONparse(CACHE[c]))

(***************************************************************************)
(* C37: no audit entry is lost to a key collision: with a working audit    *)
(* store, after n Logger calls made with the same correlation id,          *)
(* getRequestLogs for that id returns n entries, including when two calls  *)
(* happen at the same timestamp.                                           *)
(***************************************************************************)
C37_NoEntryLost ==
    \A q \in RequestIds :
        logCall[q].pc = "idle" =>
            Len(getRequestLogs(VERIFICATION_LOGS, q)) = Len(logCall[q].settled)

(***************************************************************************)
(* C38: no correlation id is lost from the recent_requests index: with a   *)
(* working store and fewer than 1000 distinct ids, every correlation id    *)
(* whose log write completed is present in the index afterwards, under any *)
(* interleaving of Logger calls from concurrent requests.                  *)
(***************************************************************************)
Indexed(q) == \E i \in DOMAIN RecentRequests : RecentRequests[i] = q

LogWriteCompleted(q) ==
    \E i \in DOMAIN logCall[q].settled :
        /\ logCall[q].settled[i].how = "returned"
        /\ logCall[q].settled[i].failure = "none"

C38_NoIdLost ==
    Len(RecentRequests) < RECENT_LIMIT =>
        \A q \in RequestIds : LogWriteCompleted(q) => Indexed(q)

(***************************************************************************)
(* C39: for every AnalysisResult whose two confidence scores lie in [0,1], *)
(* the reasons list returned by analyzeVerificationConfidence is           *)
(* non-empty: whenever none of the three negative reasons applies,         *)
(* isPassing is true and the positive reason is added.                     *)
(***************************************************************************)
ScoreInRange(record, field) ==
    /\ record # null
    /\ record[1][field] # null
    /\ record[1][field][1] \in 0..100

ScoresInRange(in) ==
    /\ ScoreInRange(in.document_a, "document_a_confidence_score")
    /\ ScoreInRange(in.document_b, "document_b_confidence_score")

NoNegativeReason(list) ==
    ~Has(list, LowDocument) /\ ~Has(list, LowPage) /\ ~Has(list, InvalidUrl)

C39_ReasonsNonEmpty ==
    \A i \in DOMAIN analyses :
        LET in == analyses[i].input
            out == analyses[i].output
        IN  ScoresInRange(in) =>
               /\ out.state = "returned"
               /\ out.reasons # <<>>
               /\ NoNegativeReason(out.reasons) =>
                     /\ out.isPassing = "true"
                     /\ out.reasons = <<AllPassed>>

\* a result at the two per-document thresholds with a valid URL: the weighted
\* sum is 0.705 and the only reason is the positive one
C39_Witness ==
    \E i \in DOMAIN analyses :
        /\ analyses[i].input.document_a =
              Some([document_a_confidence_score |-> Some(65)])
        /\ analyses[i].input.document_b =
              Some([document_b_confidence_score |-> Some(60)])
        /\ IsTruthy(analyses[i].input.verification_url_valid)
        /\ analyses[i].output.overallConfidence = 7050
        /\ analyses[i].output.reasons = <<AllPassed>>

(***************************************************************************)
(* C40: performHealthCheck reports overall status 'error' whenever the     *)
(* database check fails, whatever the results of the later KV checks; a    *)
(* failing KV check can lower 'ok' to 'degraded' but never replaces        *)
(* 'error'.                                                                *)
(***************************************************************************)
C40_DatabaseErrorKept ==
    (health.pc = "done" /\ health.checks.database.status = "error") =>
        health.overallStatus = "error"

====
